---- MODULE Spec2Model ----
(***************************************************************************)
(* A model of the engine of app_remover.py (AppRemoverEngine) and of the   *)
(* uninstall / reset handlers of ModernAppRemover that drive it.           *)
(*                                                                         *)
(* Strings.  A Python str is modelled as a word over a finite alphabet of  *)
(* tokens (a TLA+ sequence of tokens).  No token of the alphabet is a      *)
(* prefix of another one, and no token that begins a searched-for word is  *)
(* a suffix of another one, so that on the words of the model ==,          *)
(* startswith, endswith, `in`, replace, lower, + and the ordering < are    *)
(* exactly the sequence operations defined below.  An absent value (None)  *)
(* and the empty string are both the empty word: the code only ever tests  *)
(* them for truthiness.                                                    *)
(***************************************************************************)
EXTENDS Naturals, Sequences, FiniteSets

(***************************************************************************)
(* str operations                                                          *)
(***************************************************************************)

\* The alphabet in ascending code-point order (the order Python's < uses).
Alphabet ==
    << ".", "/", "3", "Application Support", "Applications", "Audio",
       "Bar", "Caches", "Components", "Containers", "Cookies", "Desktop",
       "Documents", "Downloads", "Evil", "Foo", "Group Containers",
       "HTTPStorages", "Helper", "Internet Plug-Ins", "LaunchAgents",
       "LaunchDaemons", "Library", "Logs", "Movies", "Music", "Pictures",
       "Plug-Ins", "PreferencePanes", "Preferences",
       "PrivilegedHelperTools", "Receipts", "Saved Application State",
       "System", "Users", "VST", "WebKit", "app", "bar", "binarycookies",
       "bom", "com", "db", "disabled", "evil", "foo", "group", "helper",
       "le", "pkg", "plist", "prefPane", "receipts", "savedState", "u",
       "var", "x" >>

RankOf ==
    [t \in { Alphabet[i] : i \in 1..Len(Alphabet) } |->
       CHOOSE i \in 1..Len(Alphabet) : Alphabet[i] = t]

Rank(t) == RankOf[t]

\* s < t for two str values.
StrLess(s, t) ==
    \/ Len(s) < Len(t) /\ SubSeq(t, 1, Len(s)) = s
    \/ \E i \in 1..Len(s) :
          /\ i <= Len(t)
          /\ SubSeq(s, 1, i - 1) = SubSeq(t, 1, i - 1)
          /\ s[i] # t[i]
          /\ Rank(s[i]) < Rank(t[i])

\* s.startswith(t)
StartsWith(s, t) == Len(t) <= Len(s) /\ SubSeq(s, 1, Len(t)) = t

\* s.endswith(t)
EndsWith(s, t) ==
    Len(t) <= Len(s) /\ SubSeq(s, Len(s) - Len(t) + 1, Len(s)) = t

\* t in s
Contains(s, t) ==
    \E i \in 0..Len(s) :
        i + Len(t) <= Len(s) /\ SubSeq(s, i + 1, i + Len(t)) = t

\* str.lower() of one token
LowerTok(t) ==
    CASE t = "Application Support" -> "application support"
      [] t = "Applications" -> "applications"
      [] t = "Audio" -> "audio"
      [] t = "Bar" -> "bar"
      [] t = "Caches" -> "caches"
      [] t = "Components" -> "components"
      [] t = "Containers" -> "containers"
      [] t = "Cookies" -> "cookies"
      [] t = "Desktop" -> "desktop"
      [] t = "Documents" -> "documents"
      [] t = "Downloads" -> "downloads"
      [] t = "Evil" -> "evil"
      [] t = "Foo" -> "foo"
      [] t = "Group Containers" -> "group containers"
      [] t = "HTTPStorages" -> "httpstorages"
      [] t = "Helper" -> "helper"
      [] t = "Internet Plug-Ins" -> "internet plug-ins"
      [] t = "LaunchAgents" -> "launchagents"
      [] t = "LaunchDaemons" -> "launchdaemons"
      [] t = "Library" -> "library"
      [] t = "Logs" -> "logs"
      [] t = "Movies" -> "movies"
      [] t = "Music" -> "music"
      [] t = "Pictures" -> "pictures"
      [] t = "Plug-Ins" -> "plug-ins"
      [] t = "PreferencePanes" -> "preferencepanes"
      [] t = "Preferences" -> "preferences"
      [] t = "PrivilegedHelperTools" -> "privilegedhelpertools"
      [] t = "Receipts" -> "receipts"
      [] t = "Saved Application State" -> "saved application state"
      [] t = "System" -> "system"
      [] t = "Users" -> "users"
      [] t = "VST" -> "vst"
      [] t = "WebKit" -> "webkit"
      [] t = "prefPane" -> "prefpane"
      [] t = "savedState" -> "savedstate"
      [] OTHER -> t

\* s.lower()
Lower(s) == [i \in 1..Len(s) |-> LowerTok(s[i])]

\* s.replace(pat, "") for a non-empty pat: every non-overlapping occurrence,
\* leftmost first, is dropped.
RECURSIVE Remove(_, _)
Remove(s, pat) ==
    CHOOSE out \in
      { IF t = << >> THEN << >>
        ELSE IF StartsWith(t, pat) THEN Remove(SubSeq(t, Len(pat) + 1, Len(t)), pat)
        ELSE << Head(t) >> \o Remove(Tail(t), pat) : t \in {s} } : TRUE

\* os.path.join(a, b) for two components: an absolute b discards a.
PathJoin(a, b) ==
    IF b # << >> /\ Head(b) = "/" THEN b
    ELSE IF a # << >> /\ a[Len(a)] = "/" THEN a \o b
    ELSE a \o << "/" >> \o b

Range(xs) == { xs[i] : i \in 1..Len(xs) }

\* The elements of a list, and a list of the elements of a set of str in
\* ascending order.
RECURSIVE SeqOfSet(_)
SeqOfSet(S) ==
    CHOOSE out \in
      { IF T = {} THEN << >>
        ELSE CHOOSE out1 \in
               { << m >> \o SeqOfSet(T \ {m}) :
                   m \in { x \in T : \A y \in T \ {x} : StrLess(x, y) } } : TRUE
        : T \in {S} } : TRUE

Reverse(xs) == [i \in 1..Len(xs) |-> xs[Len(xs) + 1 - i]]

RECURSIVE Concat(_)
Concat(xss) == IF xss = << >> THEN << >> ELSE Head(xss) \o Concat(Tail(xss))

(***************************************************************************)
(* The machine the engine runs on: the paths of the file system, the       *)
(* installed applications, the installed packages.                         *)
(***************************************************************************)

Sl == << "/" >>
Dot == << "." >>

\* os.path.expanduser("~")
Home == << "/", "Users", "/", "u" >>
HomeLibrary == Home \o << "/", "Library" >>

SYSTEM_APPS_PATH == << "/", "System", "/", "Applications" >>
USER_APPS_PATHS ==
    << << "/", "Applications" >>, Home \o << "/", "Applications" >> >>

FooId == << "com", ".", "x", ".", "Foo" >>
EvilId == << "com", ".", "x", ".", "Evil" >>
FooPkg == FooId \o << ".", "pkg" >>

\* An identifier of the operating system's vendor: com.apple.x
AppleId == << "com", ".", "app", "le", ".", "x" >>

\* The application records get_installed_apps produces on this machine
\* (name, path, bundle_id, bundle_name): Foo is installed twice, system-wide
\* and for the user; Bar has no readable bundle identifier; the manifest of
\* Evil names an absolute path as its bundle name.
AppFooSys ==
    [name |-> << "Foo", ".", "app" >>,
     path |-> << "/", "Applications", "/", "Foo", ".", "app" >>,
     bundle_id |-> FooId, bundle_name |-> << "Foo" >>]
AppFooUser ==
    [name |-> << "Foo", ".", "app" >>,
     path |-> Home \o << "/", "Applications", "/", "Foo", ".", "app" >>,
     bundle_id |-> FooId, bundle_name |-> << "Foo" >>]
AppBar ==
    [name |-> << "Bar", ".", "app" >>,
     path |-> << "/", "Applications", "/", "Bar", ".", "app" >>,
     bundle_id |-> << >>, bundle_name |-> << "Bar" >>]
AppEvil ==
    [name |-> << "Evil", ".", "app" >>,
     path |-> << "/", "Applications", "/", "Evil", ".", "app" >>,
     bundle_id |-> EvilId, bundle_name |-> Home \o << "/", "Documents" >>]

Apps == { AppFooSys, AppFooUser, AppBar, AppEvil }

\* The manifests that cannot be taken in, as pairs (path of the application,
\* what is wrong): none, every manifest is there and can be read.
GoodManifests == {}

\* What the manifest of the application at path p is like: "ok" unless the
\* pairs say otherwise.
ManifestOf(manifest, p) ==
    IF \E m \in manifest : m[1] = p
    THEN (CHOOSE m \in manifest : m[1] = p)[2]
    ELSE "ok"

\* The leaves of the file system at start; every ancestor directory exists too.
Leaves ==
    { AppFooSys.path, AppFooUser.path, AppBar.path, AppEvil.path,
      Home \o << "/", "Desktop" >>,
      Home \o << "/", "Downloads" >>,
      Home \o << "/", "Documents", "/", "Foo" >>,
      Home \o << "/", ".", "foo" >>,
      Home \o << "/", ".", "bar" >>,
      HomeLibrary \o << "/", "Caches", "/" >> \o FooId,
      HomeLibrary \o << "/", "Caches", "/", "Bar" >>,
      HomeLibrary \o << "/", "Caches", "/" >> \o EvilId,
      HomeLibrary \o << "/", "Preferences", "/" >> \o FooId \o << ".", "plist" >>,
      HomeLibrary \o << "/", "Application Support", "/", "Foo" >>,
      HomeLibrary \o << "/", "Group Containers", "/", "group", "." >> \o FooId,
      HomeLibrary \o << "/", "LaunchAgents", "/" >> \o FooId \o << ".", "plist" >>,
      << "/", "var", "/", "db", "/", "receipts", "/" >> \o FooPkg \o << ".", "bom" >>,
      << "/", "var", "/", "db", "/", "receipts", "/" >> \o FooPkg \o << ".", "plist" >>,
      << "/", "Library", "/", "Receipts", "/" >> \o FooPkg \o << ".", "pkg" >>,
      << "/", "Library", "/", "PrivilegedHelperTools", "/" >> \o FooId \o << ".", "helper" >>,
      << "/", "Library", "/", "PreferencePanes", "/", "Foo", ".", "prefPane" >>,
      << "/", "Library", "/", "LaunchDaemons", "/" >> \o FooId \o << ".", "plist" >>,
      HomeLibrary \o << "/", "Preferences", "/" >> \o AppleId \o << ".", "plist" >> }

\* The directories a path lies in, outermost first excluded: /a and /a/b for /a/b/c.
Ancestors(p) == { SubSeq(p, 1, i - 1) : i \in { j \in 2..Len(p) : p[j] = "/" } }

InitFS == Leaves \cup UNION { Ancestors(p) : p \in Leaves }

\* q is p or lies inside the directory p.
Under(q, p) == q = p \/ StartsWith(q, p \o Sl)

\* The regular files among the paths of the model; every other path is a
\* directory.
IsFilePath(p) ==
    \/ EndsWith(p, << ".", "plist" >>)
    \/ EndsWith(p, << ".", "bom" >>)
    \/ EndsWith(p, << ".", "pkg" >>)
    \/ EndsWith(p, << ".", "helper" >>)
    \/ EndsWith(p, << ".", "binarycookies" >>)

\* os.path.exists, os.path.isdir and os.listdir on a file system F (the set
\* of the paths that exist).  A listing comes in an order the caller does not
\* control: ascending, or descending when rev.
Exists(F, p) == p \in F
IsDir(F, p) == p \in F /\ ~IsFilePath(p)
ListDir(F, d, rev) ==
    LET names == { SubSeq(q, Len(d) + 2, Len(q)) :
                     q \in { r \in F : /\ StartsWith(r, d \o Sl)
                                       /\ Len(r) > Len(d) + 1
                                       /\ \A i \in (Len(d) + 2)..Len(r) : r[i] # "/" } }
    IN IF rev THEN Reverse(SeqOfSet(names)) ELSE SeqOfSet(names)

\* The package identifiers `pkgutil --pkgs` prints.
InstalledPkgs == << FooPkg >>

(***************************************************************************)
(* AppRemoverEngine: discovery                                             *)
(***************************************************************************)

\* _is_safe_to_delete_candidate
forbidden_exact ==
    { Home,
      Home \o << "/", "Desktop" >>,
      Home \o << "/", "Documents" >>,
      Home \o << "/", "Downloads" >>,
      << "/", "Applications" >> }

IsSafeToDeleteCandidate(path) == path \notin forbidden_exact

\* add_item without its test `path not in found_paths`: the fault the
\* uniqueness of the candidates is tested against.
AddItemNoDedup(acc, path, kind, app_path) ==
    IF /\ path # << >>
       /\ path # app_path
       /\ ~StartsWith(path, app_path)
    THEN [found_paths |-> acc.found_paths \cup {path},
          results |-> Append(acc.results, [path |-> path, kind |-> kind])]
    ELSE acc

\* add_item that gives a path found again the kind of the later source: the
\* fault the first-source rule of the kinds is tested against.
AddItemLastKind(acc, path, kind, app_path) ==
    IF /\ path # << >>
       /\ path # app_path
       /\ ~StartsWith(path, app_path)
    THEN IF path \in acc.found_paths
         THEN [acc EXCEPT !.results =
                 [i \in 1..Len(@) |-> IF @[i].path = path
                                      THEN [path |-> path, kind |-> kind] ELSE @[i]]]
         ELSE [found_paths |-> acc.found_paths \cup {path},
               results |-> Append(acc.results, [path |-> path, kind |-> kind])]
    ELSE acc

\* find_leftovers.add_item on the pair acc = (found_paths, results).
AddItem(acc, path, kind, app_path) ==
    IF /\ path # << >>
       /\ path \notin acc.found_paths
       /\ path # app_path
       /\ ~StartsWith(path, app_path)
    THEN [found_paths |-> acc.found_paths \cup {path},
          results |-> Append(acc.results, [path |-> path, kind |-> kind])]
    ELSE acc

\* `for p in paths: add_item(p, kind)`
RECURSIVE AddAll(_, _, _, _)
AddAll(acc, paths, kind, app_path) ==
    CHOOSE out \in
      { IF ps = << >> THEN a
        ELSE AddAll(AddItem(a, Head(ps), kind, app_path), Tail(ps), kind, app_path) :
          a \in {acc}, ps \in {paths} } : TRUE

\* `for p in paths: if self._is_safe_to_delete_candidate(p): add_item(p, kind)`
AddAllSafe(acc, paths, kind, app_path) ==
    AddAll(acc, SelectSeq(paths, IsSafeToDeleteCandidate), kind, app_path)

\* The eight per-identifier locations of the deterministic probe.
ManualChecks(bundle_id) ==
    << HomeLibrary \o << "/", "Caches", "/" >> \o bundle_id,
       HomeLibrary \o << "/", "Preferences", "/" >> \o bundle_id \o << ".", "plist" >>,
       HomeLibrary \o << "/", "Saved Application State", "/" >> \o bundle_id
                   \o << ".", "savedState" >>,
       HomeLibrary \o << "/", "Application Support", "/" >> \o bundle_id,
       HomeLibrary \o << "/", "Containers", "/" >> \o bundle_id,
       HomeLibrary \o << "/", "HTTPStorages", "/" >> \o bundle_id,
       HomeLibrary \o << "/", "Cookies", "/" >> \o bundle_id \o << ".", "binarycookies" >>,
       HomeLibrary \o << "/", "WebKit", "/" >> \o bundle_id >>

\* The three locations of the name probe.
SmartChecks(bundle_name) ==
    << HomeLibrary \o << "/", "Application Support", "/" >> \o bundle_name,
       HomeLibrary \o << "/", "Caches", "/" >> \o bundle_name,
       HomeLibrary \o << "/", "Saved Application State", "/" >> \o bundle_name
                   \o << ".", "savedState" >> >>

\* find_pkg_receipts: env.pkgs is what `pkgutil --pkgs` printed, env.pkgOK is
\* FALSE when the tool failed (the except branch: nothing found).
RECURSIVE ReceiptsOf(_, _)
ReceiptsOf(F, matches) ==
    IF matches = << >> THEN << >>
    ELSE LET pkg_id == Head(matches)
             base_path == << "/", "var", "/", "db", "/", "receipts", "/" >> \o pkg_id
             bom == base_path \o << ".", "bom" >>
             plist == base_path \o << ".", "plist" >>
             legacy_path == << "/", "Library", "/", "Receipts", "/" >> \o pkg_id
                              \o << ".", "pkg" >>
         IN (IF Exists(F, bom) THEN << bom >> ELSE << >>)
            \o (IF Exists(F, plist) THEN << plist >> ELSE << >>)
            \o (IF Exists(F, legacy_path) THEN << legacy_path >> ELSE << >>)
            \o ReceiptsOf(F, Tail(matches))

\* find_pkg_receipts that answers from the package list although pkgutil
\* failed: the fault the silence of a failed source is tested against.
FindPkgReceiptsDespiteFailure(F, env, bundle_id) ==
    ReceiptsOf(F, SelectSeq(env.pkgs, LAMBDA pkg : Contains(pkg, bundle_id)))

\* find_pkg_receipts(bundle_id)
FindPkgReceipts(F, env, bundle_id) ==
    IF ~env.pkgOK THEN << >>
    ELSE ReceiptsOf(F, SelectSeq(env.pkgs, LAMBDA pkg : Contains(pkg, bundle_id)))

\* `[os.path.join(d, entry) for entry in matching]`, where matching holds
\* the entries of os.listdir(d) a scan keeps; nothing when d does not exist.
Matching(F, d, matching) ==
    IF ~Exists(F, d) THEN << >>
    ELSE CHOOSE out \in
           { [i \in 1..Len(entries) |-> PathJoin(d, entries[i])] :
               entries \in { matching } } : TRUE

\* find_privileged_helpers
FindPrivilegedHelpers(F, env, bundle_id, bundle_name) ==
    LET path == << "/", "Library", "/", "PrivilegedHelperTools" >>
    IN IF path \in env.unreadable THEN << >>
       ELSE
       Matching(F, path,
                SelectSeq(ListDir(F, path, env.rev),
                          LAMBDA entry :
                             \/ bundle_id # << >> /\ Contains(entry, bundle_id)
                             \/ /\ bundle_name # << >>
                                /\ Contains(Lower(entry), Lower(bundle_name))))

\* find_plugins
PluginDirs ==
    LET sys == << "/", "Library" >>
        tails == << << "/", "Audio", "/", "Plug-Ins", "/", "Components" >>,
                    << "/", "Audio", "/", "Plug-Ins", "/", "VST" >>,
                    << "/", "Audio", "/", "Plug-Ins", "/", "VST", "3" >>,
                    << "/", "Internet Plug-Ins" >>,
                    << "/", "PreferencePanes" >> >>
    IN [i \in 1..5 |-> sys \o tails[i]] \o [i \in 1..5 |-> HomeLibrary \o tails[i]]

RECURSIVE FindPluginsIn(_, _, _, _)
FindPluginsIn(F, env, dirs, bundle_name) ==
    IF dirs = << >> THEN << >>
    ELSE (IF Head(dirs) \in env.unreadable THEN << >>
          ELSE Matching(F, Head(dirs),
                        SelectSeq(ListDir(F, Head(dirs), env.rev),
                                  LAMBDA entry :
                                     Contains(Lower(entry), Lower(bundle_name)))))
         \o FindPluginsIn(F, env, Tail(dirs), bundle_name)

FindPlugins(F, env, bundle_name) == FindPluginsIn(F, env, PluginDirs, bundle_name)

\* find_hidden_folders
FindHiddenFolders(F, bundle_name) ==
    LET path == PathJoin(Home, Dot \o Remove(Lower(bundle_name), << " " >>))
        path2 == PathJoin(Home, Dot \o bundle_name)
    IN (IF IsDir(F, path) THEN << path >> ELSE << >>)
       \o (IF IsDir(F, path2) /\ path2 # path THEN << path2 >> ELSE << >>)

\* find_user_documents
UserDirs ==
    << Home \o << "/", "Documents" >>, Home \o << "/", "Movies" >>,
       Home \o << "/", "Music" >>, Home \o << "/", "Pictures" >> >>

RECURSIVE FindUserDocumentsIn(_, _, _)
FindUserDocumentsIn(F, dirs, bundle_name) ==
    IF dirs = << >> THEN << >>
    ELSE LET d == Head(dirs)
             candidate == PathJoin(d, bundle_name)
         IN (IF Exists(F, d) /\ IsDir(F, candidate) THEN << candidate >> ELSE << >>)
            \o FindUserDocumentsIn(F, Tail(dirs), bundle_name)

FindUserDocuments(F, bundle_name) == FindUserDocumentsIn(F, UserDirs, bundle_name)

\* The order of the kinds and of the candidates: sorted(results, key=(kind, path)).
KindLess(j, k) ==
    LET r == [FILE |-> 1, GROUP_CONTAINER |-> 2, HELPER |-> 3, PKG_RECEIPT |-> 4,
              PLUGIN |-> 5, USER_DATA |-> 6]
    IN r[j] < r[k]

ItemLess(a, b) ==
    KindLess(a.kind, b.kind) \/ (a.kind = b.kind /\ StrLess(a.path, b.path))

RECURSIVE SortedInsert(_, _)
SortedInsert(x, xs) ==
    CHOOSE out \in
      { IF ys = << >> THEN << x >>
        ELSE IF ItemLess(x, Head(ys)) THEN << x >> \o ys
        ELSE << Head(ys) >> \o SortedInsert(x, Tail(ys)) : ys \in {xs} } : TRUE

\* The candidates left in the order the sources produced them: the fault the
\* order of the result is tested against.
SortItemsKeepOrder(xs) == xs

RECURSIVE SortItems(_)
SortItems(xs) ==
    CHOOSE out \in
      { IF ys = << >> THEN << >>
        ELSE SortedInsert(ys[Len(ys)], SortItems(SubSeq(ys, 1, Len(ys) - 1))) :
          ys \in {xs} } : TRUE

\* find_leftovers before its final sort: the seven sources in their order.
\* env.md is the list of lines mdfind printed, env.mdOK is FALSE when mdfind
\* failed (the except branch: the source adds nothing).
Discover(F, env, app_data) ==
    LET bundle_id == app_data.bundle_id
        bundle_name == app_data.bundle_name
        app_path == app_data.path
        a0 == [found_paths |-> {}, results |-> << >>]
        a1 == IF bundle_id # << >> /\ env.mdOK
              THEN AddAllSafe(a0, env.md, "FILE", app_path) ELSE a0
        a2 == IF bundle_id # << >>
              THEN AddAllSafe(a1, SelectSeq(ManualChecks(bundle_id),
                                            LAMBDA p : Exists(F, p)),
                              "FILE", app_path)
              ELSE a1
        a3 == IF bundle_name # << >> /\ bundle_name # bundle_id
              THEN AddAllSafe(a2, SelectSeq(SmartChecks(bundle_name),
                                            LAMBDA p : Exists(F, p)),
                              "FILE", app_path)
              ELSE a2
        a4 == IF bundle_id # << >>
              THEN AddAll(a3, FindPkgReceipts(F, env, bundle_id), "PKG_RECEIPT", app_path)
              ELSE a3
        a5 == IF bundle_id # << >> /\ bundle_name # << >>
              THEN AddAll(a4, FindPrivilegedHelpers(F, env, bundle_id, bundle_name),
                          "HELPER", app_path)
              ELSE a4
        a6 == IF bundle_name # << >>
              THEN AddAll(a5, FindPlugins(F, env, bundle_name), "PLUGIN", app_path)
              ELSE a5
        a7 == IF bundle_name # << >>
              THEN AddAll(AddAll(a6, FindHiddenFolders(F, bundle_name),
                                 "USER_DATA", app_path),
                          FindUserDocuments(F, bundle_name), "USER_DATA", app_path)
              ELSE a6
    IN a7.results

\* find_leftovers
FindLeftovers(F, env, app_data) == SortItems(Discover(F, env, app_data))

(***************************************************************************)
(* AppRemoverEngine: deletion                                              *)
(*                                                                         *)
(* The operators below thread a record w = (fs, trash, login_items,        *)
(* trace): the paths that exist, the paths that were moved to the trash,   *)
(* the names in the login-item registry, and the list of what the running  *)
(* call has done so far (the calls of secure_delete, the lines logged, the *)
(* commands issued).                                                       *)
(***************************************************************************)

Event(ev, path, arg) == [ev |-> ev, path |-> path, arg |-> arg]

Emit(w, ev, path, arg) == [w EXCEPT !.trace = Append(@, Event(ev, path, arg))]

ForceArg(force_pkgs) == IF force_pkgs THEN "force_pkgs" ELSE "default"

\* A delete that erases the item instead of moving it to the trash: the
\* fault the reversibility of the removals is tested against.
FinderErase(w, path, stuck) ==
    LET moved == { q \in w.fs : Under(q, path) }
    IN IF path \in stuck THEN Emit(w, "trash", path, "osascript")
       ELSE [Emit(w, "trash", path, "osascript") EXCEPT !.fs = @ \ moved]

\* `osascript -e 'tell application "Finder" to delete POSIX file ...'`: the
\* command is issued; Finder moves the item and what it holds to the trash
\* unless it fails for this path (stuck), which the engine does not notice.
FinderDelete(w, path, stuck) ==
    LET moved == { q \in w.fs : Under(q, path) }
    IN IF path \in stuck THEN Emit(w, "trash", path, "osascript")
       ELSE [Emit(w, "trash", path, "osascript")
               EXCEPT !.fs = @ \ moved, !.trash = @ \cup moved]

\* The package-receipt check with its second test left out: the fault the
\* blocking of receipt paths is tested against.
IsReceiptPathVarDbOnly(path) ==
    Contains(path, << "/", "var", "/", "db", "/", "receipts" >>)

\* The two substring tests of secure_delete's package-receipt check.
IsReceiptPath(path) ==
    \/ Contains(path, << "/", "var", "/", "db", "/", "receipts" >>)
    \/ Contains(path, << "/", "Library", "/", "Receipts" >>)

\* secure_delete without its general safety check: the fault the denylist
\* of the deletion is tested against.
SecureDeleteUngated(w, path, force_pkgs, stuck) ==
    CHOOSE out \in
      { IF path = << >> \/ ~Exists(w0.fs, path) THEN w0
        ELSE IF IsReceiptPath(path) /\ ~force_pkgs
             THEN Emit(w0, "log", path, "SAFETY BLOCKED: Skipping PKG receipt deletion")
        ELSE CHOOSE out1 \in
               { FinderDelete(w1, path, stuck) :
                   w1 \in { Emit(w0, "log", path, "Moving to trash") } } : TRUE
        : w0 \in { Emit(w, "secure_delete", path, ForceArg(force_pkgs)) } } : TRUE

\* secure_delete without its test that the path exists: the fault the no-op
\* on absent paths is tested against.
SecureDeleteAbsentToo(w, path, force_pkgs, stuck) ==
    CHOOSE out \in
      { IF path = << >> THEN w0
        ELSE IF IsReceiptPath(path) /\ ~force_pkgs
             THEN Emit(w0, "log", path, "SAFETY BLOCKED: Skipping PKG receipt deletion")
        ELSE IF ~IsSafeToDeleteCandidate(path)
             THEN Emit(w0, "log", path, "SAFETY BLOCKED: Item protected")
        ELSE CHOOSE out1 \in
               { FinderDelete(w1, path, stuck) :
                   w1 \in { Emit(w0, "log", path, "Moving to trash") } } : TRUE
        : w0 \in { Emit(w, "secure_delete", path, ForceArg(force_pkgs)) } } : TRUE

\* secure_delete(path, force_pkgs)
SecureDelete(w, path, force_pkgs, stuck) ==
    CHOOSE out \in
      { IF path = << >> \/ ~Exists(w0.fs, path) THEN w0
        ELSE IF IsReceiptPath(path) /\ ~force_pkgs
             THEN Emit(w0, "log", path, "SAFETY BLOCKED: Skipping PKG receipt deletion")
        ELSE CHOOSE out1 \in
               { IF ~IsSafeToDeleteCandidate(path)
                 THEN Emit(w1, "log", path, "SAFETY BLOCKED: Item protected")
                 ELSE CHOOSE out2 \in
                        { FinderDelete(w2, path, stuck) :
                            w2 \in { Emit(w1, "log", path, "Moving to trash") } } : TRUE
                 : w1 \in { IF IsReceiptPath(path)
                            THEN Emit(w0, "log", path,
                                      "WARNING: Deleting PKG receipt (Force Enabled)")
                            ELSE w0 } } : TRUE
        : w0 \in { Emit(w, "secure_delete", path, ForceArg(force_pkgs)) } } : TRUE

\* move_to_trash(path)
MoveToTrash(w, path, stuck) == SecureDelete(w, path, FALSE, stuck)

\* find_group_containers
FindGroupContainers(F, env, bundle_id) ==
    LET path == HomeLibrary \o << "/", "Group Containers" >>
    IN Matching(F, path,
                SelectSeq(ListDir(F, path, env.rev),
                          LAMBDA entry : bundle_id # << >> /\ Contains(entry, bundle_id)))

\* reset_app_preferences: `defaults delete <bundle_id>` erases the preference
\* domain, and with it the domain's file in ~/Library/Preferences when that
\* file is still there; nothing of it goes to the trash.
ResetAppPreferences(w, bundle_id) ==
    LET plist == HomeLibrary \o << "/", "Preferences", "/" >> \o bundle_id
                   \o << ".", "plist" >>
    IN [Emit(Emit(w, "log", bundle_id, "Executing defaults delete"),
             "defaults_delete", bundle_id, "defaults")
          EXCEPT !.fs = @ \ {plist}]

\* kill_cfprefsd
KillCfprefsd(w) == Emit(w, "killall", << "cfprefsd" >>, "killall")

\* The loop of reset_app over the candidates: r = (w, deleted_count).
RECURSIVE ResetLoop(_, _, _)
ResetLoop(r, leftovers, stuck) ==
    CHOOSE out \in
      { IF items = << >> THEN r0
        ELSE IF Head(items).kind = "USER_DATA" \/ Head(items).kind = "PKG_RECEIPT"
             THEN ResetLoop(r0, Tail(items), stuck)
             ELSE ResetLoop([w |-> SecureDelete(r0.w, Head(items).path, FALSE, stuck),
                             deleted_count |-> r0.deleted_count + 1],
                            Tail(items), stuck) :
          r0 \in {r}, items \in {leftovers} } : TRUE

\* reset_app(app_data): the record (w, deleted_count) it ends with.
ResetApp(w, env, app_data, stuck) ==
    LET bundle_id == app_data.bundle_id
        found == FindLeftovers(w.fs, env, app_data)
        group_containers ==
            IF bundle_id # << >>
            THEN FindGroupContainers(w.fs, env, bundle_id) ELSE << >>
        leftovers ==
            found \o [i \in 1..Len(group_containers) |->
                        [path |-> group_containers[i], kind |-> "GROUP_CONTAINER"]]
    IN CHOOSE out \in
         { [w |-> Emit(KillCfprefsd(IF bundle_id # << >>
                                    THEN ResetAppPreferences(r.w, bundle_id)
                                    ELSE r.w),
                       "log", << >>, "Deep Reset complete"),
            deleted_count |-> r.deleted_count] :
             r \in { ResetLoop([w |-> w, deleted_count |-> 0], leftovers, stuck) } } : TRUE


\* remove_startup_item that unloads a launch agent before it deletes the
\* file: the fault the order of the two steps is tested against.
RemoveStartupItemUnloadFirst(w, item, stuck) ==
    IF item.type = "Login Item"
    THEN [Emit(w, "delete_login_item", item.name, "osascript")
            EXCEPT !.login_items = @ \ {item.name}]
    ELSE SecureDelete(Emit(Emit(w, "launchctl", item.path, "bootout"),
                           "launchctl", item.path, "unload"),
                      item.path, FALSE, stuck)

\* remove_startup_item(item): a login item is deleted from the registry of
\* System Events; a launch agent goes through secure_delete, and launchctl is
\* called when its file is still there afterwards.
RemoveStartupItem(w, item, stuck) ==
    IF item.type = "Login Item"
    THEN [Emit(w, "delete_login_item", item.name, "osascript")
            EXCEPT !.login_items = @ \ {item.name}]
    ELSE CHOOSE out \in
           { IF item.path # << >> /\ Exists(w1.fs, item.path)
             THEN Emit(Emit(w1, "launchctl", item.path, "bootout"),
                       "launchctl", item.path, "unload")
             ELSE w1 :
               w1 \in { SecureDelete(w, item.path, FALSE, stuck) } } : TRUE

\* scan_orphans: the folders it scans.
ScanDirs ==
    << HomeLibrary \o << "/", "Containers" >>,
       HomeLibrary \o << "/", "Application Support" >>,
       HomeLibrary \o << "/", "Caches" >>,
       HomeLibrary \o << "/", "Preferences" >>,
       << "/", "Library", "/", "Audio", "/", "Plug-Ins", "/", "Components" >>,
       << "/", "Library", "/", "Audio", "/", "Plug-Ins", "/", "VST" >>,
       << "/", "Library", "/", "Audio", "/", "Plug-Ins", "/", "VST", "3" >>,
       << "/", "Library", "/", "Internet Plug-Ins" >>,
       << "/", "Library", "/", "PreferencePanes" >> >>

\* len(entry.split(".")): one more than the dots of the name.
Segments(entry) == Cardinality({ i \in 1..Len(entry) : entry[i] = "." }) + 1

\* The test of scan_orphans without the exclusion of the vendor's names:
\* the fault the exclusion is tested against.
IsOrphanAnyVendor(entry, installed_ids) ==
    LET clean_id == Remove(entry, << ".", "plist" >>)
    IN /\ Contains(entry, Dot)
       /\ Segments(entry) >= 3
       /\ clean_id \notin installed_ids

\* The test scan_orphans puts an entry to.
IsOrphan(entry, installed_ids) ==
    LET clean_id == Remove(entry, << ".", "plist" >>)
    IN /\ Contains(entry, Dot)
       /\ Segments(entry) >= 3
       /\ ~StartsWith(clean_id, << "com", ".", "app", "le", "." >>)
       /\ clean_id \notin installed_ids

\* _get_size in the units of the model: a path among big weighs 1, every
\* other path 0.
GetSize(path, big) == IF path \in big THEN 1 ELSE 0

\* The loop of scan_orphans over the folders; a folder that does not exist
\* is skipped, and so is one whose listing fails (unreadable).
RECURSIVE OrphansIn(_, _, _, _, _, _)
OrphansIn(F, dirs, installed_ids, rev, big, unreadable) ==
    IF dirs = << >> THEN << >>
    ELSE LET d == Head(dirs)
             matching == SelectSeq(ListDir(F, d, rev),
                                   LAMBDA entry : IsOrphan(entry, installed_ids))
         IN (IF ~Exists(F, d) \/ d \in unreadable THEN << >>
             ELSE [i \in 1..Len(matching) |->
                     [name |-> matching[i], path |-> PathJoin(d, matching[i]),
                      size |-> GetSize(PathJoin(d, matching[i]), big),
                      probable_id |-> Remove(matching[i], << ".", "plist" >>)]])
            \o OrphansIn(F, Tail(dirs), installed_ids, rev, big, unreadable)

\* sorted(orphans, key=size, reverse=True): descending, entries of one size
\* in the order they had.
RECURSIVE SortBySize(_)
SortBySize(xs) ==
    IF xs = << >> THEN << >>
    ELSE LET top == CHOOSE m \in 0..1 : /\ \E i \in 1..Len(xs) : xs[i].size = m
                                       /\ \A i \in 1..Len(xs) : xs[i].size <= m
         IN SelectSeq(xs, LAMBDA x : x.size = top)
              \o SortBySize(SelectSeq(xs, LAMBDA x : x.size # top))

\* scan_orphans(installed_bundle_ids)
ScanOrphans(F, installed_ids, rev, big, unreadable) ==
    SortBySize(OrphansIn(F, ScanDirs, installed_ids, rev, big, unreadable))

\* get_startup_items: the login items System Events names (none when the
\* query fails), then the launch agents and daemons of the three folders.
StartupDirs ==
    << HomeLibrary \o << "/", "LaunchAgents" >>,
       << "/", "Library", "/", "LaunchAgents" >>,
       << "/", "Library", "/", "LaunchDaemons" >> >>

RECURSIVE LaunchAgentsIn(_, _, _)
LaunchAgentsIn(F, dirs, rev) ==
    IF dirs = << >> THEN << >>
    ELSE LET p == Head(dirs)
             matching == SelectSeq(ListDir(F, p, rev),
                                   LAMBDA entry :
                                      /\ EndsWith(entry, << ".", "plist" >>)
                                      /\ ~StartsWith(entry, << "com", ".", "app", "le", "." >>))
         IN (IF ~Exists(F, p) THEN << >>
             ELSE [i \in 1..Len(matching) |->
                     [name |-> matching[i], path |-> PathJoin(p, matching[i]),
                      location |-> p, type |-> "Launch Agent"]])
            \o LaunchAgentsIn(F, Tail(dirs), rev)

GetStartupItems(F, L, scriptOK, rev) ==
    LET names == IF scriptOK THEN SeqOfSet(L) ELSE << >>
    IN [i \in 1..Len(names) |->
          [name |-> names[i], path |-> << "Login Item (System Settings)" >>,
           location |-> << "System Settings" >>, type |-> "Login Item"]]
       \o LaunchAgentsIn(F, StartupDirs, rev)

\* os.rename(path, new_path): the item and what it holds are at new_path.
Rename(F, path, new_path) ==
    { q \in F : ~Under(q, path) }
      \cup { new_path \o SubSeq(q, Len(path) + 1, Len(q)) : q \in { r \in F : Under(r, path) } }

\* disable_startup_item that moves the file of a launch agent to the trash:
\* the fault the keeping of the file is tested against.
DisableStartupItemByTrash(w, item, stuck, renameOK) ==
    RemoveStartupItem(w, item, stuck)

\* disable_startup_item(item): a login item is removed; a launch agent whose
\* file exists is unloaded and its file renamed, unless the rename fails
\* (renameOK is FALSE), which is logged.
DisableStartupItem(w, item, stuck, renameOK) ==
    IF item.type = "Login Item" THEN RemoveStartupItem(w, item, stuck)
    ELSE IF item.path = << >> \/ ~Exists(w.fs, item.path) THEN w
    ELSE LET path == item.path
             new_path == path \o << ".", "disabled" >>
             w1 == Emit(Emit(w, "launchctl", path, "bootout"),
                        "launchctl", path, "unload -w")
         IN IF renameOK
            THEN [Emit(w1, "log", path, "Renamed") EXCEPT !.fs = Rename(@, path, new_path)]
            ELSE Emit(w1, "log", path, "Failed to rename")

\* log_deletion that writes a file holding the new entry alone: the fault the
\* keeping of the earlier entries is tested against.
LogDeletionEntryOnly(w, app_name, deleted_files, logOK) ==
    IF logOK
    THEN [Emit(w, "log_deletion", app_name, "history.json")
            EXCEPT !.history = << [app_name |-> app_name, files |-> deleted_files] >>]
    ELSE Emit(w, "log", app_name, "FAILED TO LOG")

\* log_deletion(app_name, deleted_files): one entry is appended to the
\* history file, or the write fails (logOK is FALSE) and the failure is
\* logged.
LogDeletion(w, app_name, deleted_files, logOK) ==
    IF logOK
    THEN [Emit(w, "log_deletion", app_name, "history.json")
            EXCEPT !.history = Append(@, [app_name |-> app_name,
                                          files |-> deleted_files])]
    ELSE Emit(w, "log", app_name, "FAILED TO LOG")

\* The steps of log_deletion, for calls that run at the same time.  The entry
\* of a call; the list a call writes, from the list it loaded and its entry
\* (`history.append(entry)` and `json.dump(history, f)`).
LogEntry(app_name, deleted_files) == [app_name |-> app_name, files |-> deleted_files]

\* A rewrite that drops the list that was loaded: the fault the keeping of
\* the earlier entries by concurrent calls is tested against.
RewriteEntryOnly(loaded, entry) == << entry >>

Rewrite(loaded, entry) == Append(loaded, entry)

(***************************************************************************)
(* AppRemoverEngine: processes                                             *)
(*                                                                         *)
(* A running process has the name System Events lists it under (name),     *)
(* the name of its executable, which pgrep and pkill match (comm), and the *)
(* bundle identifier `tell application id` addresses it by (id).           *)
(***************************************************************************)

BarId == << "com", ".", "x", ".", "Bar" >>

ProcFoo == [name |-> << "Foo" >>, comm |-> << "Foo" >>, id |-> FooId]
ProcFooHelper ==
    [name |-> << "Foo", "Helper" >>, comm |-> << "Foo", "Helper" >>,
     id |-> FooId \o << ".", "helper" >>]
ProcBar == [name |-> << "Bar" >>, comm |-> << "Bar" >>, id |-> BarId]
ProcEvil == [name |-> << "Evil" >>, comm |-> << "evil" >>, id |-> EvilId]

Processes == { ProcFoo, ProcFooHelper, ProcBar, ProcEvil }

\* A match on every name that contains the pattern: the fault the exact
\* matching of process names is tested against.
ProcMatchesSubstring(name, pattern) == Contains(name, pattern)

\* `(name of processes) contains "<clean_name>"`, `pgrep -x <clean_name>` and
\* `pkill -x <clean_name>`: a process matches when its name is the pattern.
ProcMatches(name, pattern) == name = pattern

BoolArg(b) == IF b THEN "true" ELSE "false"

\* is_app_running(bundle_id, app_name) on the running processes P.
\* tools.scriptOK is FALSE when the osascript query fails (the except branch).
IsAppRunning(P, tools, bundle_id, app_name) ==
    LET clean_name == Remove(app_name, << ".", "app" >>)
    IN \/ /\ app_name # << >>
          /\ tools.scriptOK
          /\ \E p \in P : ProcMatches(p.name, clean_name)
       \/ /\ app_name # << >>
          /\ \E p \in P : ProcMatches(p.comm, clean_name)

\* The graceful quit kill_app starts with, and the wait after it.
QuitApp(w, tools, bundle_id, app_name) ==
    Emit(IF bundle_id # << >>
         THEN [Emit(Emit(w, "log", app_name, "Attempting to stop"),
                    "quit", bundle_id, "osascript")
                 EXCEPT !.procs = IF tools.quitWorks
                                  THEN { p \in @ : p.id # bundle_id }
                                  ELSE @]
         ELSE Emit(w, "log", app_name, "Attempting to stop"),
         "sleep", << >>, "1")

\* kill_app that reports success once it has signalled the process, without
\* looking at what the check after the signal says.
KillAppTrustingPkill(w, tools, bundle_id, app_name) ==
    LET clean_name == Remove(app_name, << ".", "app" >>)
        Check(v) == Emit(v, "is_app_running", app_name,
                         BoolArg(IsAppRunning(v.procs, tools, bundle_id, app_name)))
    IN CHOOSE out \in
         { IF ~IsAppRunning(w2.procs, tools, bundle_id, app_name)
           THEN [w |-> Check(w2), ret |-> TRUE]
           ELSE [w |-> Check([Emit(Check(w2), "pkill", clean_name, "-x")
                                EXCEPT !.procs =
                                  IF tools.pkillWorks
                                  THEN { p \in @ : ~ProcMatches(p.comm, clean_name) }
                                  ELSE @]),
                 ret |-> TRUE]
           : w2 \in { QuitApp(w, tools, bundle_id, app_name) } } : TRUE

\* kill_app(bundle_id, app_name): the record (w, ret) it ends with.
\* tools.quitWorks: the application quits within the wait when asked to;
\* tools.pkillWorks: a signalled process is gone within the second wait.
KillApp(w, tools, bundle_id, app_name) ==
    LET clean_name == Remove(app_name, << ".", "app" >>)
        Check(v) == Emit(v, "is_app_running", app_name,
                         BoolArg(IsAppRunning(v.procs, tools, bundle_id, app_name)))
    IN CHOOSE out \in
         { IF ~IsAppRunning(w2.procs, tools, bundle_id, app_name)
           THEN [w |-> Check(w2), ret |-> TRUE]
           ELSE CHOOSE out1 \in
                  { [w |-> Check(w3),
                     ret |-> ~IsAppRunning(w3.procs, tools, bundle_id, app_name)] :
                      w3 \in { IF app_name # << >>
                               THEN Emit([Emit(Emit(Check(w2), "log", clean_name,
                                                    "Force killing process"),
                                               "pkill", clean_name, "-x")
                                            EXCEPT !.procs =
                                              IF tools.pkillWorks
                                              THEN { p \in @ : ~ProcMatches(p.comm, clean_name) }
                                              ELSE @],
                                         "sleep", << >>, "0.5")
                               ELSE Check(w2) } } : TRUE
           : w2 \in { QuitApp(w, tools, bundle_id, app_name) } } : TRUE

\* The tools as they serve a call when the ones in `missing` cannot be
\* started: the quit, the question to System Events and pkill run inside
\* `try ... except Exception`, where a tool that is not there is a tool that
\* failed.
Serving(tools, missing) ==
    [scriptOK |-> tools.scriptOK /\ "osascript" \notin missing,
     quitWorks |-> tools.quitWorks /\ "osascript" \notin missing,
     pkillWorks |-> tools.pkillWorks /\ "pkill" \notin missing]

\* is_app_running(bundle_id, app_name) ends with an exception: the pgrep
\* fallback is reached and pgrep cannot be started, which is no
\* CalledProcessError, the one exception the fallback catches.
IsAppRunningRaises(P, tools, missing, bundle_id, app_name) ==
    LET clean_name == Remove(app_name, << ".", "app" >>)
    IN /\ app_name # << >>
       /\ ~(/\ Serving(tools, missing).scriptOK
            /\ \E p \in P : ProcMatches(p.name, clean_name))
       /\ "pgrep" \in missing

\* kill_app(bundle_id, app_name) with the tools in `missing` not there: the
\* record (w, ret, raised) it ends with.  Both calls of is_app_running are
\* outside every try, so what they raise leaves kill_app.
KillAppFaulty(w, tools, missing, bundle_id, app_name) ==
    LET serving == Serving(tools, missing)
        Raise(v) == Emit(v, "raise", app_name, "FileNotFoundError")
    IN CHOOSE out \in
         { IF IsAppRunningRaises(w2.procs, tools, missing, bundle_id, app_name)
           THEN [w |-> Raise(w2), ret |-> FALSE, raised |-> TRUE]
           ELSE CHOOSE out1 \in
                  { IF IsAppRunningRaises(r.w.procs, tools, missing, bundle_id, app_name)
                    THEN [w |-> Raise([r.w EXCEPT !.trace =
                                         SubSeq(@, 1, Len(@) - 1)]),
                          ret |-> FALSE, raised |-> TRUE]
                    ELSE [w |-> r.w, ret |-> r.ret, raised |-> FALSE] :
                      r \in { KillApp(w, serving, bundle_id, app_name) } } : TRUE
           : w2 \in { QuitApp(w, serving, bundle_id, app_name) } } : TRUE

\* remove_startup_item(item) with the tools in `missing` not there: the
\* record (w, raised) it ends with.  subprocess.run is called outside every
\* try, for osascript and for launchctl.
RemoveStartupItemFaulty(w, item, stuck, missing) ==
    IF item.type = "Login Item"
    THEN IF "osascript" \in missing
         THEN [w |-> Emit(w, "raise", item.name, "FileNotFoundError"), raised |-> TRUE]
         ELSE [w |-> RemoveStartupItem(w, item, stuck), raised |-> FALSE]
    ELSE CHOOSE out \in
           { IF item.path # << >> /\ Exists(w1.fs, item.path) /\ "launchctl" \in missing
             THEN [w |-> Emit(w1, "raise", item.path, "FileNotFoundError"),
                   raised |-> TRUE]
             ELSE [w |-> RemoveStartupItem(w, item, stuck), raised |-> FALSE] :
               w1 \in { SecureDelete(w, item.path, FALSE, stuck) } } : TRUE

\* check_full_disk_access: checks[i] says what the i-th protected directory
\* (Safari, Mail, Messages in the user's Library) does: "absent"
\* (os.path.exists is false), "listed", "denied" (PermissionError) or
\* "oserror" (another OSError).
CheckFullDiskAccess(checks) ==
    LET successes == Cardinality({ i \in 1..Len(checks) : checks[i] = "listed" })
        failures == Cardinality({ i \in 1..Len(checks) : checks[i] = "denied" })
    IN IF failures > 0 THEN FALSE
       ELSE IF successes > 0 THEN TRUE
       ELSE TRUE

(***************************************************************************)
(* ModernAppRemover: the uninstall and the reset handlers                  *)
(***************************************************************************)

\* os.path.basename
BaseName(p) ==
    LET cuts == { j \in 1..Len(p) : p[j] = "/" }
    IN IF cuts = {} THEN p
       ELSE SubSeq(p, (CHOOSE j \in cuts : \A k \in cuts : k <= j) + 1, Len(p))

\* _get_app_metadata without the except branch: what the manifest holds is
\* taken whatever state the manifest is in.
GetAppMetadataUnguarded(full_path, manifest) ==
    LET a == CHOOSE a \in Apps : a.path = full_path
    IN [id |-> a.bundle_id, bundle_name |-> a.bundle_name,
        executable_name |-> Remove(a.name, << ".", "app" >>)]

\* _get_app_metadata: the identifier and the bundle name the manifest of the
\* application at this path holds.
\* The manifest is "ok", "missing" (os.path.exists is false), "unreadable"
\* (open raises) or "unparsable" (plistlib.load raises); what is absent in
\* the result is << >>.
GetAppMetadata(full_path, manifest) ==
    LET a == CHOOSE a \in Apps : a.path = full_path
    IN IF manifest = "ok"
       THEN [id |-> a.bundle_id, bundle_name |-> a.bundle_name,
             executable_name |-> Remove(a.name, << ".", "app" >>)]
       ELSE [id |-> << >>, bundle_name |-> << >>, executable_name |-> << >>]

\* sorted(apps, key=lambda x: x["name"].lower()): the sort is stable.
RECURSIVE InsertApp(_, _)
InsertApp(x, xs) ==
    CHOOSE out \in
      { IF ys = << >> THEN << x >>
        ELSE IF StrLess(Lower(x.name), Lower(ys[Len(ys)].name))
             THEN InsertApp(x, SubSeq(ys, 1, Len(ys) - 1)) \o << ys[Len(ys)] >>
             ELSE ys \o << x >> : ys \in {xs} } : TRUE

RECURSIVE SortApps(_)
SortApps(xs) ==
    CHOOSE out \in
      { IF ys = << >> THEN << >>
        ELSE InsertApp(ys[Len(ys)], SortApps(SubSeq(ys, 1, Len(ys) - 1))) :
          ys \in {xs} } : TRUE

\* get_installed_apps
GetInstalledApps(F, env) ==
    LET found ==
          Concat([i \in 1..Len(USER_APPS_PATHS) |->
                    Matching(F, USER_APPS_PATHS[i],
                             SelectSeq(ListDir(F, USER_APPS_PATHS[i], env.rev),
                                       LAMBDA entry :
                                          /\ EndsWith(entry, << ".", "app" >>)
                                          /\ ~StartsWith(PathJoin(USER_APPS_PATHS[i], entry),
                                                         SYSTEM_APPS_PATH)))])
    IN SortApps([i \in 1..Len(found) |->
                   [name |-> BaseName(found[i]), path |-> found[i],
                    bundle_id |-> GetAppMetadata(found[i],
                                                 ManifestOf(env.manifest,
                                                            found[i])).id,
                    bundle_name |-> GetAppMetadata(found[i],
                                                   ManifestOf(env.manifest,
                                                              found[i])).bundle_name]])

\* on_search with an empty query: one row per application, its name in the
\* first column and its path as the tag of the row.
Rows(all_apps) ==
    [i \in 1..Len(all_apps) |-> [name |-> all_apps[i].name, path |-> all_apps[i].path]]

\* One round of the loop of confirm_uninstall over the selected rows:
\* r = (w, targets); the user answers yes to the question asked for the rows
\* in yes.
UninstallRow(r, row, all_apps, yes, tools, env) ==
    LET matches == SelectSeq(all_apps, LAMBDA a : a.name = row.name)
        app == Head(matches)
        running == IsAppRunning(r.w.procs, tools, app.bundle_id, app.name)
        w2 == Emit(Emit(Emit(r.w, "row", row.path, "selected"),
                        "app", app.path, "looked up"),
                   "is_app_running", app.name, BoolArg(running))
    IN IF matches = << >> THEN r
       ELSE IF running /\ row.path \notin yes
            THEN [r EXCEPT !.w = Emit(w2, "askyesno", app.name, "no")]
       ELSE CHOOSE out \in
              { [w |-> Emit(w3, "find_leftovers", app.path, "call"),
                 targets |-> Append(r.targets,
                                    [app |-> app,
                                     leftovers |-> FindLeftovers(w3.fs, env, app)])] :
                  w3 \in { IF running
                           THEN KillApp(Emit(Emit(w2, "askyesno", app.name, "yes"),
                                             "kill_app", app.name, "call"),
                                        tools, app.bundle_id, app.name).w
                           ELSE w2 } } : TRUE

RECURSIVE UninstallLoop(_, _, _, _, _, _)
UninstallLoop(r, sel, all_apps, yes, tools, env) ==
    CHOOSE out \in
      { IF rows = << >> THEN r0
        ELSE UninstallLoop(UninstallRow(r0, Head(rows), all_apps, yes, tools, env),
                           Tail(rows), all_apps, yes, tools, env) :
          r0 \in {r}, rows \in {sel} } : TRUE

\* _get_active_targets without its two tests on the kind: the fault the
\* switches of the preview are tested against.
GetAllTargets(targets, include_userdata, include_system) ==
    Concat([i \in 1..Len(targets) |->
              << targets[i].app.path >>
                \o [k \in 1..Len(targets[i].leftovers) |-> targets[i].leftovers[k].path]])

\* _get_active_targets
GetActiveTargets(targets, include_userdata, include_system) ==
    Concat([i \in 1..Len(targets) |->
              LET kept == SelectSeq(targets[i].leftovers,
                                    LAMBDA item :
                                       /\ ~(item.kind = "USER_DATA" /\ ~include_userdata)
                                       /\ ~(item.kind = "PKG_RECEIPT" /\ ~include_system))
              IN << targets[i].app.path >> \o [k \in 1..Len(kept) |-> kept[k].path]])

\* The lines _refresh_simulation_list writes for one target: the [APP] line,
\* then one line per leftover, skipped or not.
PreviewLines(t, include_userdata, include_system) ==
    << [path |-> t.app.path, tag |-> "APP", skipped |-> FALSE] >> \o
    [k \in 1..Len(t.leftovers) |->
       LET item == t.leftovers[k]
       IN IF item.kind = "USER_DATA" /\ ~include_userdata
          THEN [path |-> item.path, tag |-> "SKIPPED - USER DATA", skipped |-> TRUE]
          ELSE IF item.kind = "PKG_RECEIPT" /\ ~include_system
          THEN [path |-> item.path, tag |-> "SKIPPED - SYSTEM", skipped |-> TRUE]
          ELSE [path |-> item.path, tag |-> item.kind, skipped |-> FALSE]]

\* _refresh_simulation_list that counts every line it writes: the fault the
\* count of the preview is tested against.
RefreshSimulationListCountsAll(targets, include_userdata, include_system) ==
    LET lines == Concat([i \in 1..Len(targets) |->
                           PreviewLines(targets[i], include_userdata, include_system)])
    IN [lines |-> lines, count |-> Len(lines)]

\* _refresh_simulation_list: the lines of the text area and the count on the
\* label and on the button.
RefreshSimulationList(targets, include_userdata, include_system) ==
    LET lines == Concat([i \in 1..Len(targets) |->
                           PreviewLines(targets[i], include_userdata, include_system)])
    IN [lines |-> lines,
        count |-> Cardinality({ k \in 1..Len(lines) : ~lines[k].skipped })]

\* The worker of do_delete: `for path in final_targets: secure_delete(...)`
RECURSIVE DeleteAll(_, _, _, _)
DeleteAll(w, final_targets, force_pkgs, stuck) ==
    CHOOSE out \in
      { IF paths = << >> THEN w0
        ELSE DeleteAll(SecureDelete(w0, Head(paths), force_pkgs, stuck),
                       Tail(paths), force_pkgs, stuck) :
          w0 \in {w}, paths \in {final_targets} } : TRUE

\* The worker of do_delete: `for t in targets: log_deletion(...)`
RECURSIVE LogAll(_, _, _, _)
LogAll(w, targets, final_targets, logOK) ==
    CHOOSE out \in
      { IF ts = << >> THEN w0
        ELSE LET t == Head(ts)
                 active == SelectSeq(t.leftovers,
                                     LAMBDA x : x.path \in Range(final_targets))
                 active_leftovers == [k \in 1..Len(active) |-> active[k].path]
             IN LogAll(LogDeletion(w0, t.app.name,
                                   active_leftovers \o << t.app.path >>, logOK),
                       Tail(ts), final_targets, logOK) :
          w0 \in {w}, ts \in {targets} } : TRUE

\* One round of the loop of confirm_reset over the selected rows.
ResetRow(r, row, all_apps, yes, tools) ==
    LET matches == SelectSeq(all_apps, LAMBDA a : a.name = row.name)
        app == Head(matches)
        running == IsAppRunning(r.w.procs, tools, app.bundle_id, app.name)
        w2 == Emit(Emit(Emit(r.w, "row", row.path, "selected"),
                        "app", app.path, "looked up"),
                   "is_app_running", app.name, BoolArg(running))
    IN IF matches = << >> THEN r
       ELSE IF running /\ row.path \notin yes
            THEN [r EXCEPT !.w = Emit(w2, "askyesno", app.name, "no")]
       ELSE [w |-> IF running
                   THEN KillApp(Emit(Emit(w2, "askyesno", app.name, "yes"),
                                     "kill_app", app.name, "call"),
                                tools, app.bundle_id, app.name).w
                   ELSE w2,
             targets |-> Append(r.targets, app)]

RECURSIVE ResetRows(_, _, _, _, _)
ResetRows(r, sel, all_apps, yes, tools) ==
    CHOOSE out \in
      { IF rows = << >> THEN r0
        ELSE ResetRows(ResetRow(r0, Head(rows), all_apps, yes, tools),
                       Tail(rows), all_apps, yes, tools) :
          r0 \in {r}, rows \in {sel} } : TRUE

\* `for app in targets: count += self.engine.reset_app(app)`: r = (w, deleted_count)
RECURSIVE ResetAll(_, _, _, _)
ResetAll(r, targets, env, stuck) ==
    CHOOSE out \in
      { IF ts = << >> THEN r0
        ELSE CHOOSE out1 \in
               { ResetAll([w |-> r1.w, deleted_count |-> r0.deleted_count + r1.deleted_count],
                          Tail(ts), env, stuck) :
                   r1 \in { ResetApp(Emit(r0.w, "reset_app", Head(ts).path, "call"),
                                     env, Head(ts), stuck) } } : TRUE
        : r0 \in {r}, ts \in {targets} } : TRUE

(***************************************************************************)
(* The program as a state machine: one action per engine call and one per  *)
(* handler.  The engine keeps nothing between calls; call holds the call   *)
(* that has just finished (what it was given and what it returned) and     *)
(* trace what it did, until its caller takes the result (Return).          *)
(***************************************************************************)

VARIABLES
    fs,           \* the paths that exist
    trash,        \* the paths that were moved to the trash
    login_items,  \* the names in the login-item registry
    procs,        \* the running processes
    history,      \* the entries of history.json
    moves,        \* how many calls have changed the file system or the registry
    call,         \* the call that has just finished
    trace,        \* what that call, or the running flow of the window, did
    ui,           \* the uninstall preview of the window
    parseable,    \* history.json is absent or holds a JSON list (history)
    writers       \* the calls of log_deletion that run step by step

vars == << fs, trash, login_items, procs, history, moves, call, trace, ui,
           parseable, writers >>

\* How many calls of one run may change the file system or the registry.
MaxMoves == 1

\* How many rows the user selects at most.
MaxSel == 2

\* How many entries the history file holds at most.
MaxHistory == 2

\* How many entries the history file holds at most when calls of
\* log_deletion run at the same time.
MaxLog == 3

\* The calls of log_deletion that may run at the same time.
Writers == { "first", "second" }

\* A call of log_deletion that has not started: where it is (pc), its
\* entry, the list it loaded, the entries of the file when it started
\* (before), whether no other call has run during it (alone) and whether
\* another call has written the file since this one opened it (stale).
IdleWriter ==
    [pc |-> "idle", entry |-> LogEntry(<< >>, << >>), loaded |-> << >>,
     before |-> << >>, alone |-> TRUE, stale |-> FALSE]

NoApp == [name |-> << >>, path |-> << >>, bundle_id |-> << >>, bundle_name |-> << >>]

Closed == [modal |-> FALSE, targets |-> << >>,
           var_del_userdata |-> FALSE, var_del_system |-> FALSE,
           preview |-> [lines |-> << >>, count |-> 0]]

\* What `mdfind -onlyin ~` may print for a query: nothing, or one of these
\* paths inside the home directory when it exists.
MdfindHits ==
    { Home \o << "/", "Applications" >>,
      AppFooUser.path,
      Home \o << "/", "Documents" >>,
      Home \o << "/", "Documents", "/", "Foo" >>,
      Home \o << "/", ".", "foo" >>,
      HomeLibrary \o << "/", "Caches", "/" >> \o FooId }

\* Two lines that mdfind may print in either order.
MdfindPair ==
    { HomeLibrary \o << "/", "Caches", "/" >> \o FooId,
      Home \o << "/", ".", "foo" >> }

MdfindOutputs(F) ==
    { << >> } \cup { << q >> : q \in F \cap MdfindHits }
      \cup { << pq[1], pq[2] >> :
               pq \in { xy \in (F \cap MdfindPair) \X (F \cap MdfindPair) : xy[1] # xy[2] } }

\* What the tools outside the engine answer during one call: mdfind prints
\* md, or fails (mdOK is FALSE, nothing is read); pkgutil prints pkgs, or
\* fails (pkgOK is FALSE); directory listings come ascending, or descending
\* (rev).
Envs(F) ==
    { [md |-> md, mdOK |-> TRUE, pkgs |-> InstalledPkgs, pkgOK |-> pkgOK, rev |-> FALSE,
       unreadable |-> {}, manifest |-> GoodManifests] :
        md \in MdfindOutputs(F), pkgOK \in BOOLEAN }
    \cup
    { [md |-> << >>, mdOK |-> mdOK, pkgs |-> InstalledPkgs, pkgOK |-> TRUE, rev |-> rev,
       unreadable |-> {}, manifest |-> GoodManifests] :
        mdOK \in BOOLEAN, rev \in BOOLEAN }

\* The answers of the tools while a handler of the window runs: mdfind
\* prints nothing and every tool works.
QuietEnv ==
    [md |-> << >>, mdOK |-> TRUE, pkgs |-> InstalledPkgs, pkgOK |-> TRUE, rev |-> FALSE,
     unreadable |-> {}, manifest |-> GoodManifests]

\* The answers of the tools when any of them may fail: mdfind, pkgutil, and
\* the listing of the helper folder and of the preference-pane folder (a
\* folder among unreadable raises when it is listed).
FailEnvs(F) ==
    { [md |-> md, mdOK |-> mdOK, pkgs |-> InstalledPkgs, pkgOK |-> pkgOK, rev |-> FALSE,
       unreadable |-> unreadable, manifest |-> GoodManifests] :
        md \in { << >>, << Home \o << "/", ".", "foo" >> >>,
                 << HomeLibrary \o << "/", "Group Containers", "/", "group", "." >>
                      \o FooId >> } \cap ({ << >> } \cup { << q >> : q \in F }),
        mdOK \in BOOLEAN, pkgOK \in BOOLEAN,
        unreadable \in SUBSET { << "/", "Library", "/", "PrivilegedHelperTools" >>,
                                << "/", "Library", "/", "PreferencePanes" >> } }

Idle == [op |-> "idle", app |-> NoApp, path |-> << >>, force_pkgs |-> FALSE,
         md |-> << >>, env |-> QuietEnv, ids |-> {}, unreadable |-> {}, ret |-> << >>, ret_bool |-> FALSE,
         count |-> 0, raised |-> FALSE, checks |-> << >>]

\* The paths Finder may fail to move during one call: none, the preference
\* file of Foo, or every path.
StuckSets ==
    { {}, { HomeLibrary \o << "/", "Preferences", "/" >> \o FooId \o << ".", "plist" >> },
      InitFS }

\* The paths secure_delete and move_to_trash are called with.
DeleteArgs ==
    Leaves \cup forbidden_exact
      \cup { << >>, Home \o << "/", "Applications" >>,
             << "/", "var", "/", "db", "/", "receipts" >>,
             HomeLibrary \o << "/", "Caches", "/", "Evil" >> }

\* The startup items remove_startup_item is called with: the login item Foo
\* and the launch agent of Foo.
StartupItemArgs ==
    { [type |-> "Login Item", name |-> << "Foo" >>, path |-> << >>],
      [type |-> "Launch Agent", name |-> FooId \o << ".", "plist" >>,
       path |-> HomeLibrary \o << "/", "LaunchAgents", "/" >> \o FooId
                  \o << ".", "plist" >>],
      [type |-> "Launch Agent", name |-> FooId \o << ".", "plist" >>,
       path |-> << "/", "Library", "/", "LaunchDaemons", "/" >> \o FooId
                  \o << ".", "plist" >>] }

\* How the process tools behave during one call.
ProcTools ==
    { [scriptOK |-> s, quitWorks |-> q, pkillWorks |-> k] :
        s \in BOOLEAN, q \in BOOLEAN, k \in BOOLEAN }

\* How the process tools behave while a handler of the window runs: the
\* osascript query works.
WindowTools == { tools \in ProcTools : tools.scriptOK }

\* The arguments is_app_running and kill_app are called with.
BundleIdArgs == { << >>, FooId, EvilId }
AppNameArgs == { << >> } \cup { a.name : a \in Apps }

InitMachine ==
    /\ fs = InitFS
    /\ trash = {}
    /\ login_items = { << "Foo" >> }
    /\ history = << >>
    /\ moves = 0
    /\ call = Idle
    /\ trace = << >>
    /\ ui = Closed
    /\ parseable = TRUE
    /\ writers = [i \in Writers |-> IdleWriter]

\* No application is running.
Init == InitMachine /\ procs = {}

\* Any of the processes may be running.
InitRunning == InitMachine /\ procs \in SUBSET Processes

\* Foo and Bar may be running when the window is used.
InitWindow == InitMachine /\ procs \in SUBSET { ProcFoo, ProcBar }

\* The effect w of a call on the machine.
Effect(w) ==
    /\ (w.fs # fs \/ w.login_items # login_items) => moves < MaxMoves
    /\ Len(w.history) <= MaxHistory
    /\ fs' = w.fs
    /\ trash' = w.trash
    /\ login_items' = w.login_items
    /\ procs' = w.procs
    /\ history' = w.history
    /\ moves' = IF w.fs # fs \/ w.login_items # login_items THEN moves + 1 ELSE moves
    /\ trace' = w.trace
    /\ UNCHANGED << parseable, writers >>

Start == [fs |-> fs, trash |-> trash, login_items |-> login_items, procs |-> procs,
          history |-> history, trace |-> << >>]

Ready == call.op = "idle" /\ ~ui.modal

\* A flow of the window starts while the run may still change the machine.
ReadyWindow == Ready /\ moves < MaxMoves

FindLeftoversCall ==
    /\ Ready
    /\ \E app \in Apps, env \in Envs(fs) :
         /\ call' = [Idle EXCEPT !.op = "find_leftovers", !.app = app, !.md = env.md,
                                 !.env = env, !.ret = FindLeftovers(fs, env, app)]
         /\ Effect(IF env.mdOK \/ app.bundle_id = << >> THEN Start
                   ELSE Emit(Start, "log", << >>, "mdfind error"))
         /\ UNCHANGED ui

\* find_leftovers while any of its tools may fail.
\* Foo as get_installed_apps lists it when its manifest holds the bundle
\* name and no identifier.
AppFooNoId == [AppFooSys EXCEPT !.bundle_id = << >>]

FindLeftoversDegradedCall ==
    /\ Ready
    /\ \E app \in Apps \cup { AppFooNoId }, env \in FailEnvs(fs) :
         /\ call' = [Idle EXCEPT !.op = "find_leftovers", !.app = app, !.md = env.md,
                                 !.env = env, !.ret = FindLeftovers(fs, env, app)]
         /\ Effect(IF env.mdOK \/ app.bundle_id = << >> THEN Start
                   ELSE Emit(Start, "log", << >>, "mdfind error"))
         /\ UNCHANGED ui

SecureDeleteCall ==
    /\ Ready
    /\ \E path \in DeleteArgs, force_pkgs \in BOOLEAN, stuck \in StuckSets :
         /\ call' = [Idle EXCEPT !.op = "secure_delete", !.path = path,
                                 !.force_pkgs = force_pkgs]
         /\ \E w \in { SecureDelete(Start, path, force_pkgs, stuck) } : Effect(w)
         /\ UNCHANGED ui

MoveToTrashCall ==
    /\ Ready
    /\ \E path \in DeleteArgs, stuck \in StuckSets :
         /\ call' = [Idle EXCEPT !.op = "move_to_trash", !.path = path]
         /\ \E w \in { MoveToTrash(Start, path, stuck) } : Effect(w)
         /\ UNCHANGED ui

ResetAppCall ==
    /\ Ready
    /\ \E app \in Apps, env \in Envs(fs), stuck \in StuckSets :
         \E r \in { ResetApp(Start, env, app, stuck) } : \E w \in { r.w } :
            /\ call' = [Idle EXCEPT !.op = "reset_app", !.app = app, !.md = env.md,
                                    !.count = r.deleted_count]
            /\ Effect(w)
            /\ UNCHANGED ui

RemoveStartupItemCall ==
    /\ Ready
    /\ \E item \in StartupItemArgs, stuck \in StuckSets :
         /\ call' = [Idle EXCEPT !.op = "remove_startup_item", !.path = item.path,
                                 !.app = [NoApp EXCEPT !.name = item.name]]
         /\ \E w \in { RemoveStartupItem(Start, item, stuck) } : Effect(w)
         /\ UNCHANGED ui

DisableStartupItemCall ==
    /\ Ready
    /\ \E item \in StartupItemArgs, stuck \in StuckSets, renameOK \in BOOLEAN :
         /\ call' = [Idle EXCEPT !.op = "disable_startup_item", !.path = item.path,
                                 !.app = [NoApp EXCEPT !.name = item.name]]
         /\ \E w \in { DisableStartupItem(Start, item, stuck, renameOK) } : Effect(w)
         /\ UNCHANGED ui

GetStartupItemsCall ==
    /\ Ready
    /\ \E scriptOK \in BOOLEAN, rev \in BOOLEAN :
         /\ call' = [Idle EXCEPT !.op = "get_startup_items",
                                 !.ret = GetStartupItems(fs, login_items, scriptOK, rev)]
         /\ Effect(Start)
         /\ UNCHANGED ui

\* The lists of installed identifiers scan_orphans is called with, the
\* folders whose listing may fail and the paths that may be large.
InstalledIdArgs == { {}, { FooId }, { EvilId }, { FooId, EvilId } }
UnreadableArgs == { {}, { HomeLibrary \o << "/", "Caches" >> } }
BigArgs == { {}, { HomeLibrary \o << "/", "Preferences", "/" >> \o FooId \o << ".", "plist" >> } }

ScanOrphansCall ==
    /\ Ready
    /\ \E installed_ids \in InstalledIdArgs, rev \in BOOLEAN, big \in BigArgs,
          unreadable \in UnreadableArgs :
         /\ call' = [Idle EXCEPT !.op = "scan_orphans", !.ids = installed_ids,
                                 !.unreadable = unreadable,
                                 !.ret = ScanOrphans(fs, installed_ids, rev, big,
                                                     unreadable)]
         /\ Effect(Start)
         /\ UNCHANGED ui

IsAppRunningCall ==
    /\ Ready
    /\ \E bundle_id \in BundleIdArgs, app_name \in AppNameArgs, tools \in ProcTools :
         /\ call' = [Idle EXCEPT !.op = "is_app_running",
                                 !.app = [NoApp EXCEPT !.bundle_id = bundle_id,
                                                       !.name = app_name],
                                 !.ret_bool = IsAppRunning(procs, tools, bundle_id, app_name)]
         /\ Effect(Start)
         /\ UNCHANGED ui

KillAppCall ==
    /\ Ready
    /\ \E bundle_id \in BundleIdArgs, app_name \in AppNameArgs, tools \in ProcTools :
         \E r \in { KillApp(Start, tools, bundle_id, app_name) } : \E w \in { r.w } :
            /\ call' = [Idle EXCEPT !.op = "kill_app",
                                    !.app = [NoApp EXCEPT !.bundle_id = bundle_id,
                                                          !.name = app_name],
                                    !.ret_bool = r.ret]
            /\ Effect(w)
            /\ UNCHANGED ui

\* The sets of tools that may be missing from the machine.
MissingSets == SUBSET { "osascript", "pgrep", "pkill", "launchctl" }

\* is_app_running on a machine where tools may be missing.
IsAppRunningFaultyCall ==
    /\ Ready
    /\ \E bundle_id \in BundleIdArgs, app_name \in AppNameArgs, tools \in ProcTools,
          missing \in MissingSets :
       \E raised \in { IsAppRunningRaises(procs, tools, missing, bundle_id, app_name) } :
         /\ call' = [Idle EXCEPT !.op = "is_app_running",
                                 !.app = [NoApp EXCEPT !.bundle_id = bundle_id,
                                                       !.name = app_name],
                                 !.raised = raised,
                                 !.ret_bool = ~raised /\ IsAppRunning(procs,
                                                Serving(tools, missing),
                                                bundle_id, app_name)]
         /\ Effect(Start)
         /\ UNCHANGED ui

\* kill_app on a machine where tools may be missing.
KillAppFaultyCall ==
    /\ Ready
    /\ \E bundle_id \in BundleIdArgs, app_name \in AppNameArgs, tools \in ProcTools,
          missing \in MissingSets :
         \E r \in { KillAppFaulty(Start, tools, missing, bundle_id, app_name) } :
         \E w \in { r.w } :
            /\ call' = [Idle EXCEPT !.op = "kill_app",
                                    !.app = [NoApp EXCEPT !.bundle_id = bundle_id,
                                                          !.name = app_name],
                                    !.raised = r.raised,
                                    !.ret_bool = r.ret]
            /\ Effect(w)
            /\ UNCHANGED ui

\* remove_startup_item on a machine where tools may be missing.
RemoveStartupItemFaultyCall ==
    /\ Ready
    /\ \E item \in StartupItemArgs, stuck \in StuckSets, missing \in MissingSets :
       \E r \in { RemoveStartupItemFaulty(Start, item, stuck, missing) } :
       \E w \in { r.w } :
         /\ call' = [Idle EXCEPT !.op = "remove_startup_item", !.path = item.path,
                                 !.app = [NoApp EXCEPT !.name = item.name],
                                 !.raised = r.raised]
         /\ Effect(w)
         /\ UNCHANGED ui

\* get_startup_items on a machine where tools may be missing: the query of
\* the login items runs inside `try ... except Exception`.
GetStartupItemsFaultyCall ==
    /\ Ready
    /\ \E scriptOK \in BOOLEAN, rev \in BOOLEAN, missing \in MissingSets :
         /\ call' = [Idle EXCEPT !.op = "get_startup_items",
                                 !.ret = GetStartupItems(fs, login_items,
                                            scriptOK /\ "osascript" \notin missing,
                                            rev)]
         /\ Effect(Start)
         /\ UNCHANGED ui

\* get_installed_apps on a machine where the manifest of an application may
\* be missing, unreadable or unparsable.
GetInstalledAppsCall ==
    /\ Ready
    /\ \E f \in [{ a.path : a \in Apps } ->
                    { "ok", "missing", "unreadable", "unparsable" }],
          rev \in BOOLEAN :
       \E env \in { [QuietEnv EXCEPT
                       !.manifest = { << q, f[q] >> :
                                        q \in { x \in DOMAIN f : f[x] # "ok" } },
                       !.rev = rev] } :
         /\ call' = [Idle EXCEPT !.op = "get_installed_apps", !.env = env,
                                 !.ret = GetInstalledApps(fs, env)]
         /\ Effect(Start)
         /\ UNCHANGED ui

\* check_full_disk_access with the three protected directories in any state.
CheckFullDiskAccessCall ==
    /\ Ready
    /\ \E checks \in [1..3 -> { "absent", "listed", "denied", "oserror" }] :
         /\ call' = [Idle EXCEPT !.op = "check_full_disk_access", !.checks = checks,
                                 !.ret_bool = CheckFullDiskAccess(checks)]
         /\ Effect(Start)
         /\ UNCHANGED ui

\* The caller takes the result; the engine holds nothing of the call.
Return ==
    /\ call.op # "idle"
    /\ ~ui.modal
    /\ call' = Idle
    /\ trace' = << >>
    /\ UNCHANGED << fs, trash, login_items, procs, history, moves, ui, parseable, writers >>

\* The rows the user may have selected in the list of applications, in the
\* order of the list.
Selections(rows) ==
    { SelectSeq(rows, LAMBDA row : row.path \in S) :
        S \in { T \in SUBSET { rows[i].path : i \in 1..Len(rows) } :
                  Cardinality(T) >= 1 /\ Cardinality(T) <= MaxSel } }

\* confirm_uninstall: the loop over the selection, then the preview opens
\* with both switches off when there is a target.
ConfirmUninstall ==
    /\ ReadyWindow
    /\ \E all_apps \in { GetInstalledApps(fs, QuietEnv) } :
       \E sel \in Selections(Rows(all_apps)), tools \in WindowTools :
       \E yes \in SUBSET Range([i \in 1..Len(sel) |-> sel[i].path]) :
       \E r \in { UninstallLoop([w |-> Start, targets |-> << >>], sel, all_apps,
                                yes, tools, QuietEnv) } :
       \E w \in { r.w } :
         /\ call' = [Idle EXCEPT !.op = "confirm_uninstall"]
         /\ ui' = IF r.targets = << >> THEN Closed
                  ELSE [Closed EXCEPT !.modal = TRUE, !.targets = r.targets,
                                      !.preview = RefreshSimulationList(
                                                      r.targets, FALSE, FALSE)]
         /\ Effect(w)

\* The list get_installed_apps returns when the manifest of Evil names the
\* directory /var/db as its CFBundleName.
EvilNamesVarDb(all_apps) ==
    [i \in 1..Len(all_apps) |->
       IF all_apps[i].path = AppEvil.path
       THEN [all_apps[i] EXCEPT !.bundle_name = << "/", "var", "/", "db" >>]
       ELSE all_apps[i]]

\* confirm_uninstall on that machine.
ConfirmUninstallVarDb ==
    /\ ReadyWindow
    /\ \E all_apps \in { EvilNamesVarDb(GetInstalledApps(fs, QuietEnv)) } :
       \E sel \in Selections(Rows(all_apps)), tools \in WindowTools :
       \E yes \in SUBSET Range([i \in 1..Len(sel) |-> sel[i].path]) :
       \E r \in { UninstallLoop([w |-> Start, targets |-> << >>], sel, all_apps,
                                yes, tools, QuietEnv) } :
       \E w \in { r.w } :
         /\ call' = [Idle EXCEPT !.op = "confirm_uninstall"]
         /\ ui' = IF r.targets = << >> THEN Closed
                  ELSE [Closed EXCEPT !.modal = TRUE, !.targets = r.targets,
                                      !.preview = RefreshSimulationList(
                                                      r.targets, FALSE, FALSE)]
         /\ Effect(w)

\* The two switches of the preview: the variable changes and on_toggle
\* refreshes the list.
ToggleUserData ==
    /\ ui.modal
    /\ ui' = [ui EXCEPT !.var_del_userdata = ~@,
                        !.preview = RefreshSimulationList(ui.targets,
                                        ~ui.var_del_userdata, ui.var_del_system)]
    /\ UNCHANGED << fs, trash, login_items, procs, history, moves, call, trace,
                    parseable, writers >>

ToggleSystem ==
    /\ ui.modal
    /\ ui' = [ui EXCEPT !.var_del_system = ~@,
                        !.preview = RefreshSimulationList(ui.targets,
                                        ui.var_del_userdata, ~ui.var_del_system)]
    /\ UNCHANGED << fs, trash, login_items, procs, history, moves, call, trace,
                    parseable, writers >>

\* The Cancel button of the preview.
Cancel ==
    /\ ui.modal
    /\ ui' = Closed
    /\ call' = Idle
    /\ trace' = << >>
    /\ UNCHANGED << fs, trash, login_items, procs, history, moves, parseable, writers >>

\* do_delete and its worker: the paths are chosen with the switches as they
\* are, every one of them goes through secure_delete, the batch is logged
\* and the preview closes.
DoDelete ==
    /\ ui.modal
    /\ \E stuck \in StuckSets \ {InitFS}, logOK \in BOOLEAN :
       \E final_targets \in { GetActiveTargets(ui.targets, ui.var_del_userdata,
                                               ui.var_del_system) } :
       \E w1 \in { DeleteAll([Start EXCEPT !.trace = trace], final_targets,
                             ui.var_del_system, stuck) } :
       \E w \in { LogAll(w1, ui.targets, final_targets, logOK) } :
         /\ call' = [Idle EXCEPT !.op = "do_delete"]
         /\ ui' = Closed
         /\ Effect(w)

\* confirm_reset: the loop over the selection, the question, and reset_app
\* for every target when the user confirms.
ConfirmReset ==
    /\ ReadyWindow
    /\ \E all_apps \in { GetInstalledApps(fs, QuietEnv) } :
       \E sel \in Selections(Rows(all_apps)), tools \in WindowTools, stuck \in StuckSets \ {InitFS} :
       \E yes \in SUBSET Range([i \in 1..Len(sel) |-> sel[i].path]), confirm \in BOOLEAN :
       \E r \in { ResetRows([w |-> Start, targets |-> << >>], sel, all_apps, yes, tools) } :
       \E r2 \in { IF r.targets = << >> THEN [w |-> r.w, deleted_count |-> 0]
                   ELSE IF ~confirm
                        THEN [w |-> Emit(r.w, "confirm", << >>, "no"), deleted_count |-> 0]
                   ELSE ResetAll([w |-> Emit(r.w, "confirm", << >>, "yes"),
                                  deleted_count |-> 0],
                                 r.targets, QuietEnv, stuck) } :
       \E w \in { r2.w } :
         /\ call' = [Idle EXCEPT !.op = "confirm_reset", !.count = r2.deleted_count]
         /\ ui' = Closed
         /\ Effect(w)

\* The applications log_deletion is called for: the entry lists the install
\* path.
LogArgs == { AppFooSys, AppBar }

InProgress == { i \in Writers : writers[i].pc \in { "read", "loaded", "opened" } }

\* log_deletion called while no other call of it runs.  The read fails when
\* the file is not parseable, and may fail when it is (logOK is FALSE).
LogDeletionCall ==
    /\ Ready
    /\ \A i \in Writers : writers[i].pc = "idle"
    /\ Len(history) < MaxLog
    /\ \E app \in LogArgs, logOK \in (IF parseable THEN BOOLEAN ELSE { FALSE }) :
         /\ call' = [Idle EXCEPT !.op = "log_deletion",
                                 !.app = [NoApp EXCEPT !.name = app.name],
                                 !.ret = << app.path >>]
         /\ \E w \in { LogDeletion(Start, app.name, << app.path >>, logOK) } :
               /\ history' = w.history
               /\ trace' = w.trace
         /\ UNCHANGED << fs, trash, login_items, procs, moves, ui, parseable, writers >>

\* A call of log_deletion starts: it builds its entry.
LogBegin(i) ==
    /\ Ready
    /\ writers[i].pc = "idle"
    /\ \A j \in Writers : writers[j].pc # "opened"
    /\ Len(history) + Cardinality(InProgress) < MaxLog
    /\ \E app \in LogArgs :
         writers' =
           [j \in Writers |->
              IF j = i
              THEN [IdleWriter EXCEPT !.pc = "read",
                                      !.entry = LogEntry(app.name, << app.path >>),
                                      !.before = history,
                                      !.alone = InProgress = {}]
              ELSE IF j \in InProgress THEN [writers[j] EXCEPT !.alone = FALSE]
              ELSE writers[j]]
    /\ UNCHANGED << fs, trash, login_items, procs, history, moves, call, trace, ui,
                    parseable >>

\* `history = json.load(f)`: the call loads the list, or fails and ends (the
\* except branch) when the file cannot be read or is not parseable, as it is
\* while another call has truncated it and not yet written it.
LogRead(i) ==
    /\ writers[i].pc = "read"
    /\ \E readOK \in (IF parseable THEN BOOLEAN ELSE { FALSE }) :
         writers' = [writers EXCEPT ![i] =
                       IF readOK THEN [@ EXCEPT !.pc = "loaded", !.loaded = history]
                       ELSE [@ EXCEPT !.pc = "failed"]]
    /\ UNCHANGED << fs, trash, login_items, procs, history, moves, call, trace, ui,
                    parseable >>

\* `open(log_file, "w")`: the file is truncated.
LogOpen(i) ==
    /\ writers[i].pc = "loaded"
    /\ history' = << >>
    /\ parseable' = FALSE
    /\ writers' = [writers EXCEPT ![i].pc = "opened", ![i].stale = FALSE]
    /\ UNCHANGED << fs, trash, login_items, procs, moves, call, trace, ui >>

\* `json.dump(history, f)` and the close: the text goes to the start of the
\* file.  When another call has written the file since this one opened it,
\* that text stays behind this one where it is longer (fits is FALSE) and
\* the file is not parseable.
LogDump(i) ==
    /\ writers[i].pc = "opened"
    /\ \E fits \in (IF writers[i].stale THEN BOOLEAN ELSE { TRUE }) :
         /\ history' = IF fits THEN Rewrite(writers[i].loaded, writers[i].entry)
                        ELSE << >>
         /\ parseable' = fits
    /\ writers' =
         [j \in Writers |->
            IF j = i THEN [writers[j] EXCEPT !.pc = "done"]
            ELSE IF writers[j].pc = "opened" THEN [writers[j] EXCEPT !.stale = TRUE]
            ELSE writers[j]]
    /\ UNCHANGED << fs, trash, login_items, procs, moves, call, trace, ui >>

\* The calls that ran have returned.
LogEnd ==
    /\ InProgress = {}
    /\ \E i \in Writers : writers[i].pc # "idle"
    /\ writers' = [i \in Writers |-> IdleWriter]
    /\ UNCHANGED << fs, trash, login_items, procs, history, moves, call, trace, ui,
                    parseable >>

\* The engine called on its own.
Next ==
    \/ FindLeftoversCall
    \/ SecureDeleteCall
    \/ MoveToTrashCall
    \/ ResetAppCall
    \/ RemoveStartupItemCall
    \/ DisableStartupItemCall
    \/ GetStartupItemsCall
    \/ ScanOrphansCall
    \/ Return

Spec == Init /\ [][Next]_vars

\* The process calls of the engine, with any of the processes running.
NextProc ==
    \/ IsAppRunningCall
    \/ KillAppCall
    \/ Return

SpecProc == InitRunning /\ [][NextProc]_vars

\* The window: the uninstall flow and the reset flow.
NextUI ==
    \/ ConfirmUninstall
    \/ ToggleUserData
    \/ ToggleSystem
    \/ Cancel
    \/ DoDelete
    \/ ConfirmReset
    \/ Return

SpecUI == InitWindow /\ [][NextUI]_vars

\* The uninstall flow of the window where the manifest of Evil names /var/db.
NextVarDb ==
    \/ ConfirmUninstallVarDb
    \/ ToggleUserData
    \/ ToggleSystem
    \/ Cancel
    \/ DoDelete
    \/ Return

SpecVarDb == InitWindow /\ [][NextVarDb]_vars

\* The audit log: calls of log_deletion one after another, and two calls at
\* the same time.
NextLog ==
    \/ LogDeletionCall
    \/ \E i \in Writers : LogBegin(i)
    \/ \E i \in Writers : LogRead(i)
    \/ \E i \in Writers : LogOpen(i)
    \/ \E i \in Writers : LogDump(i)
    \/ LogEnd
    \/ Return

SpecLog == Init /\ [][NextLog]_vars

\* reset_app while sources of the discovery may fail.
ResetAppDegradedCall ==
    /\ Ready
    /\ \E app \in Apps, env \in FailEnvs(fs), stuck \in StuckSets :
         \E r \in { ResetApp(Start, env, app, stuck) } : \E w \in { r.w } :
            /\ call' = [Idle EXCEPT !.op = "reset_app", !.app = app, !.md = env.md,
                                    !.env = env, !.count = r.deleted_count]
            /\ Effect(w)
            /\ UNCHANGED ui

\* Discovery with failing tools.
NextFind ==
    \/ FindLeftoversDegradedCall
    \/ ResetAppDegradedCall
    \/ Return

SpecFind == Init /\ [][NextFind]_vars

\* The engine on a machine where external tools may be missing.
NextFault ==
    \/ IsAppRunningFaultyCall
    \/ KillAppFaultyCall
    \/ RemoveStartupItemFaultyCall
    \/ GetStartupItemsFaultyCall
    \/ GetInstalledAppsCall
    \/ CheckFullDiskAccessCall
    \/ Return

SpecFault == InitRunning /\ [][NextFault]_vars

(***************************************************************************)
(* Properties                                                              *)
(***************************************************************************)

\* C1: no candidate that find_leftovers returns is the install path of the
\* application, lies inside the install path, or is a directory the install
\* path lies in.
C1_NoSelfDestruction ==
    call.op = "find_leftovers" =>
      \A i \in 1..Len(call.ret) :
         /\ call.ret[i].path # call.app.path
         /\ ~Under(call.ret[i].path, call.app.path)
         /\ ~Under(call.app.path, call.ret[i].path)

\* C2: whatever path and whatever force_pkgs a deletion is called with, the
\* trash-move is never issued for the home directory, Desktop, Documents,
\* Downloads or /Applications, and every path it is issued for passes
\* _is_safe_to_delete_candidate.
C2_TrashMoveOnlyForSafePaths ==
    \A i \in 1..Len(trace) :
       trace[i].ev = "trash" =>
          /\ trace[i].path \notin
               { Home, Home \o << "/", "Desktop" >>, Home \o << "/", "Documents" >>,
                 Home \o << "/", "Downloads" >>, << "/", "Applications" >> }
          /\ IsSafeToDeleteCandidate(trace[i].path)

\* secure_delete was called with package receipts forced on a denylisted path
\* that exists, and it logged the block instead of issuing the trash-move.
C2_Witness ==
    /\ call.op = "secure_delete"
    /\ call.force_pkgs
    /\ call.path = Home \o << "/", "Documents" >>
    /\ call.path \in fs
    /\ \E i \in 1..Len(trace) :
          trace[i] = Event("log", call.path, "SAFETY BLOCKED: Item protected")

\* C3: secure_delete with force_pkgs false on an existing path under
\* /var/db/receipts or /Library/Receipts issues no trash-move, leaves the
\* file system and the trash as they are, logs SAFETY BLOCKED and returns.
C3_ReceiptBlocked ==
    [][ ( /\ call.op = "idle"
          /\ call'.op = "secure_delete"
          /\ ~call'.force_pkgs
          /\ call'.path \in fs
          /\ \/ Under(call'.path, << "/", "var", "/", "db", "/", "receipts" >>)
             \/ Under(call'.path, << "/", "Library", "/", "Receipts" >>) )
        => ( /\ fs' = fs
             /\ trash' = trash
             /\ \A i \in 1..Len(trace') : trace'[i].ev # "trash"
             /\ \E i \in 1..Len(trace') :
                   trace'[i] = Event("log", call'.path,
                                     "SAFETY BLOCKED: Skipping PKG receipt deletion")
             /\ trace'[Len(trace')].ev = "log" ) ]_vars

\* secure_delete was called without force on the legacy receipt of Foo, which
\* is still there, and logged the block.
C3_Witness ==
    /\ call.op = "secure_delete"
    /\ ~call.force_pkgs
    /\ call.path = << "/", "Library", "/", "Receipts", "/" >> \o FooPkg \o << ".", "pkg" >>
    /\ call.path \in fs
    /\ Len(trace) = 2
    /\ trace[2] = Event("log", call.path, "SAFETY BLOCKED: Skipping PKG receipt deletion")

\* C4: during reset_app, no path that the hidden-folder lookup, the
\* user-document lookup or the package-receipt lookup yields for the
\* application is passed to secure_delete.
C4_ResetSparesUserData ==
    [][ (call.op = "idle" /\ call'.op = "reset_app") =>
          LET app == call'.app
              user_data ==
                  IF app.bundle_name # << >>
                  THEN Range(FindHiddenFolders(fs, app.bundle_name))
                         \cup Range(FindUserDocuments(fs, app.bundle_name))
                  ELSE {}
              receipts ==
                  IF app.bundle_id # << >>
                  THEN Range(FindPkgReceipts(fs, [pkgs |-> InstalledPkgs, pkgOK |-> TRUE],
                                             app.bundle_id))
                  ELSE {}
          IN \A i \in 1..Len(trace') :
                trace'[i].ev = "secure_delete" =>
                   trace'[i].path \notin user_data \cup receipts ]_vars

\* C5: in kill_app, pkill is issued only after a graceful-quit request and
\* after an is_app_running check that followed the wait.
C5_QuitBeforeForce ==
    call.op = "kill_app" =>
      \A i \in 1..Len(trace) :
         trace[i].ev = "pkill" =>
            /\ \E j \in 1..(i - 1) : trace[j].ev = "quit"
            /\ \E j \in 1..(i - 1), k \in 1..(i - 1) :
                  /\ j < k
                  /\ trace[j].ev = "sleep"
                  /\ trace[k].ev = "is_app_running"

\* C6: when a running process has a name that strictly contains the searched
\* name and no running process has exactly the searched name,
\* is_app_running returns false, and kill_app issues no pkill and leaves
\* every running process running.
C6_ExactNameOnly ==
    [][ LET clean_name == Remove(call'.app.name, << ".", "app" >>)
        IN ( /\ call.op = "idle"
             /\ call'.op \in { "is_app_running", "kill_app" }
             /\ call'.app.name # << >>
             /\ \E p \in procs :
                   \/ Contains(p.name, clean_name) /\ p.name # clean_name
                   \/ Contains(p.comm, clean_name) /\ p.comm # clean_name
             /\ \A p \in procs : p.name # clean_name /\ p.comm # clean_name )
           => ( /\ call'.op = "is_app_running" => ~call'.ret_bool
                /\ call'.op = "kill_app" =>
                     /\ \A i \in 1..Len(trace') : trace'[i].ev # "pkill"
                     /\ \A i \in 1..Len(trace') :
                           trace'[i].ev = "is_app_running" => trace'[i].arg = "false"
                     /\ call'.ret_bool
                     /\ { p \in procs : Contains(p.name, clean_name) } \subseteq procs' ) ]_vars

\* kill_app was called for Foo.app while the helper of Foo was running and
\* Foo was not: the helper is still running and no pkill was issued.
C6_Witness ==
    /\ call.op = "kill_app"
    /\ call.app.name = << "Foo", ".", "app" >>
    /\ call.app.bundle_id = FooId
    /\ ProcFooHelper \in procs
    /\ ProcFoo \notin procs
    /\ call.ret_bool
    /\ \E i \in 1..Len(trace) : trace[i] = Event("quit", FooId, "osascript")
    /\ \A i \in 1..Len(trace) : trace[i].ev # "pkill"

\* C7: in the uninstall flow and in the reset flow, when the user declines
\* to stop a running application selected in a row, no later secure_delete
\* takes the path of that row and no reset_app takes the application of that
\* row; when the user accepts, kill_app is called before every secure_delete,
\* defaults delete and reset_app of the flow.
C7_RunningTargetGate ==
    LET RowOf(i) ==
            LET rows == { j \in 1..i : trace[j].ev = "row" }
            IN trace[CHOOSE j \in rows : \A k \in rows : k <= j].path
    IN \A i \in 1..Len(trace) :
          trace[i].ev = "askyesno" =>
             IF trace[i].arg = "no"
             THEN \A j \in (i + 1)..Len(trace) :
                     ~( /\ trace[j].ev \in { "secure_delete", "reset_app" }
                        /\ trace[j].path = RowOf(i) )
             ELSE \E k \in (i + 1)..Len(trace) :
                     /\ trace[k].ev = "kill_app"
                     /\ trace[k].path = trace[i].path
                     /\ \A j \in 1..Len(trace) :
                           trace[j].ev \in { "secure_delete", "defaults_delete", "reset_app" }
                              => k < j

\* C8 as stated: nothing is ever erased, every path that was there at the
\* start is still there or is in the trash.
C8_NothingErased == InitFS \subseteq fs \cup trash

\* C8: every path a call removes is in the trash afterwards, except the
\* preference file of the application that reset_app erases with
\* `defaults delete` (and the file disable_startup_item renames, which is
\* kept under its new name); nothing leaves the trash; and the login-item
\* registry only changes in remove_startup_item and disable_startup_item.
C8_RemovalsAreTrashMoves ==
    [][ /\ (fs \ fs') \ trash' \subseteq
             IF call'.op = "reset_app" /\ call'.app.bundle_id # << >>
             THEN { HomeLibrary \o << "/", "Preferences", "/" >> \o call'.app.bundle_id
                      \o << ".", "plist" >> }
             ELSE IF /\ call'.op = "disable_startup_item"
                     /\ call'.path \o << ".", "disabled" >> \in fs'
             THEN { call'.path }
             ELSE {}
        /\ trash \subseteq trash'
        /\ login_items' # login_items =>
             call'.op \in { "remove_startup_item", "disable_startup_item" } ]_vars

\* reset_app of Foo moved the cache of Foo to the trash and erased the
\* preference file that Finder had failed to move.
C8_Witness ==
    /\ call.op = "reset_app"
    /\ call.app.bundle_id = FooId
    /\ HomeLibrary \o << "/", "Caches", "/" >> \o FooId \in trash
    /\ HomeLibrary \o << "/", "Preferences", "/" >> \o FooId \o << ".", "plist" >>
         \notin fs \cup trash
    /\ \E i \in 1..Len(trace) : trace[i].ev = "defaults_delete"

\* C9: every candidate that find_leftovers returns passes
\* _is_safe_to_delete_candidate.
C9_CandidatesAdmitted ==
    call.op = "find_leftovers" =>
      \A i \in 1..Len(call.ret) : IsSafeToDeleteCandidate(call.ret[i].path)

\* C10: no two candidates of one find_leftovers result have the same path.
C10_UniquePaths ==
    call.op = "find_leftovers" =>
      \A i \in 1..Len(call.ret), j \in 1..Len(call.ret) :
         call.ret[i].path = call.ret[j].path => i = j

\* find_leftovers for Foo got the cache of Foo from mdfind and from the
\* deterministic probe, and returns it once.
C10_Witness ==
    /\ call.op = "find_leftovers"
    /\ call.app = AppFooSys
    /\ call.md = << HomeLibrary \o << "/", "Caches", "/" >> \o FooId >>
    /\ Cardinality({ i \in 1..Len(call.ret) : call.ret[i].path = call.md[1] }) = 1

\* C11: the kind of every candidate of a find_leftovers result is the kind of
\* the first source, in the order content index, deterministic probe, name
\* probe, package receipts, helpers, plug-ins, user data, that added the
\* path; a later source that produces the path again does not change it.
C11_FirstSourceKind ==
    call.op = "find_leftovers" =>
      LET app == call.app
          env == call.env
          id == app.bundle_id
          name == app.bundle_name
          Safe(S) == { p \in S : IsSafeToDeleteCandidate(p) }
          sources ==
            << [kind |-> "FILE",
                paths |-> IF id # << >> /\ env.mdOK THEN Safe(Range(env.md)) ELSE {}],
               [kind |-> "FILE",
                paths |-> IF id # << >>
                          THEN Safe({ p \in Range(ManualChecks(id)) : p \in fs }) ELSE {}],
               [kind |-> "FILE",
                paths |-> IF name # << >> /\ name # id
                          THEN Safe({ p \in Range(SmartChecks(name)) : p \in fs }) ELSE {}],
               [kind |-> "PKG_RECEIPT",
                paths |-> IF id # << >> THEN Range(FindPkgReceipts(fs, env, id)) ELSE {}],
               [kind |-> "HELPER",
                paths |-> IF id # << >> /\ name # << >>
                          THEN Range(FindPrivilegedHelpers(fs, env, id, name)) ELSE {}],
               [kind |-> "PLUGIN",
                paths |-> IF name # << >> THEN Range(FindPlugins(fs, env, name)) ELSE {}],
               [kind |-> "USER_DATA",
                paths |-> IF name # << >>
                          THEN Range(FindHiddenFolders(fs, name))
                                 \cup Range(FindUserDocuments(fs, name))
                          ELSE {}] >>
      IN \A i \in 1..Len(call.ret) :
            LET adders == { k \in 1..7 : call.ret[i].path \in sources[k].paths }
            IN /\ adders # {}
               /\ call.ret[i].kind =
                    sources[CHOOSE k \in adders : \A j \in adders : k <= j].kind

\* find_leftovers of Foo, with the hidden folder of Foo printed by mdfind and
\* found again by the user-data lookup: the candidate keeps the kind FILE.
C11_Witness ==
    /\ call.op = "find_leftovers"
    /\ call.app = AppFooSys
    /\ call.env.mdOK
    /\ Home \o << "/", ".", "foo" >> \in Range(call.env.md)
    /\ Home \o << "/", ".", "foo" >> \in Range(FindHiddenFolders(fs, call.app.bundle_name))
    /\ \E i \in 1..Len(call.ret) :
          call.ret[i] = [path |-> Home \o << "/", ".", "foo" >>, kind |-> "FILE"]

\* C12: the list find_leftovers returns is in ascending order of (kind,
\* path), and it is the same list whatever the order in which mdfind printed
\* its lines and the directory listings came.
C12_SortedAndOrderIndependent ==
    call.op = "find_leftovers" =>
      /\ \A i \in 1..Len(call.ret), j \in 1..Len(call.ret) :
            i < j =>
              \/ KindLess(call.ret[i].kind, call.ret[j].kind)
              \/ /\ call.ret[i].kind = call.ret[j].kind
                 /\ StrLess(call.ret[i].path, call.ret[j].path)
      /\ \A rev \in BOOLEAN, md \in { call.env.md, Reverse(call.env.md) } :
            FindLeftovers(fs, [call.env EXCEPT !.rev = rev, !.md = md], call.app)
              = call.ret

\* find_leftovers of Foo with two lines of mdfind: the sources produced the
\* candidates in another order than with the lines exchanged, and in another
\* order than the one returned.
C12_Witness ==
    /\ call.op = "find_leftovers"
    /\ call.app = AppFooSys
    /\ Len(call.env.md) = 2
    /\ Discover(fs, call.env, call.app)
         # Discover(fs, [call.env EXCEPT !.md = Reverse(@)], call.app)
    /\ Discover(fs, call.env, call.app) # call.ret
    /\ \E i \in 1..Len(call.ret), j \in 1..Len(call.ret) :
          call.ret[i].kind # call.ret[j].kind

\* C13: the paths do_delete passes to secure_delete are exactly the install
\* path of every target and those of its leftovers that are not USER_DATA
\* unless the user-data switch is on and not PKG_RECEIPT unless the receipts
\* switch is on, with the switches as they are when Uninstall is clicked;
\* both switches are off whenever a preview opens.
C13_DeletedPathsFollowSwitches ==
    [][ /\ (ui.modal /\ call'.op = "do_delete") =>
             LET Chosen(t) ==
                   { t.app.path } \cup
                   { t.leftovers[k].path :
                       k \in { j \in 1..Len(t.leftovers) :
                                 /\ t.leftovers[j].kind = "USER_DATA" => ui.var_del_userdata
                                 /\ t.leftovers[j].kind = "PKG_RECEIPT" => ui.var_del_system } }
             IN { trace'[i].path : i \in { j \in 1..Len(trace') :
                                             trace'[j].ev = "secure_delete" } }
                  = UNION { Chosen(ui.targets[i]) : i \in 1..Len(ui.targets) }
        /\ (~ui.modal /\ ui'.modal) =>
             ~ui'.var_del_userdata /\ ~ui'.var_del_system ]_vars

\* An uninstall of Foo with the user-data switch on and the receipts switch
\* off: the hidden folder of Foo was passed to secure_delete and the legacy
\* receipt of Foo was not.
C13_Witness ==
    /\ call.op = "do_delete"
    /\ \E i \in 1..Len(trace) :
          trace[i] = Event("find_leftovers", AppFooSys.path, "call")
    /\ \E i \in 1..Len(trace) :
          trace[i] = Event("secure_delete", AppFooSys.path, "default")
    /\ \E i \in 1..Len(trace) :
          trace[i] = Event("secure_delete", Home \o << "/", ".", "foo" >>, "default")
    /\ \A i \in 1..Len(trace) :
          trace[i].ev = "secure_delete" => ~IsReceiptPath(trace[i].path)
    /\ << "/", "Library", "/", "Receipts", "/" >> \o FooPkg \o << ".", "pkg" >> \in fs

\* C14: every path an entry of the audit log lists was moved to the trash:
\* the entry written for an application after an uninstall batch holds no
\* path that secure_delete blocked, found absent or failed to move.
C14_AuditListsMovedPaths ==
    \A i \in 1..Len(history) :
       \A k \in 1..Len(history[i].files) : history[i].files[k] \in trash

C16_ConcurrentAppendOnly ==
    InProgress = {} =>
      \A i \in Writers :
         writers[i].pc # "idle" =>
            /\ Len(writers[i].before) <= Len(history)
            /\ SubSeq(history, 1, Len(writers[i].before)) = writers[i].before
            /\ writers[i].pc = "done" => writers[i].entry \in Range(history)

\* C16: calls of log_deletion are not synchronized.  When the calls that ran
\* at the same time have ended and the file is parseable, it holds every
\* entry that was there when a call started and it ends with the entry of a
\* call that wrote; a call that no other call overlapped and that wrote
\* leaves a parseable file that holds its entry.
C16_LastWriterWins ==
    InProgress = {} =>
      /\ parseable =>
           /\ \A i \in Writers :
                 writers[i].pc # "idle" =>
                    /\ Len(writers[i].before) <= Len(history)
                    /\ SubSeq(history, 1, Len(writers[i].before)) = writers[i].before
           /\ (\E i \in Writers : writers[i].pc = "done") =>
                 \E i \in Writers :
                    /\ writers[i].pc = "done"
                    /\ history = Rewrite(writers[i].loaded, writers[i].entry)
      /\ \A i \in Writers :
            (writers[i].pc = "done" /\ writers[i].alone) =>
               parseable /\ writers[i].entry \in Range(history)

\* Two calls that overlapped have both written: the file is parseable, holds
\* the entry that was there before and the entry of one call, and the entry
\* of the other call is lost.
C16_Witness ==
    /\ \A i \in Writers : writers[i].pc = "done" /\ ~writers[i].alone
    /\ parseable
    /\ Len(history) = 2
    /\ writers["first"].before = << history[1] >>
    /\ writers["second"].before = << history[1] >>
    /\ writers["first"].entry \notin Range(history)
    /\ writers["second"].entry \in Range(history)

\* C17: secure_delete or move_to_trash on a path that does not exist logs
\* nothing, issues no trash-move and changes neither the file system nor the
\* trash; and a second call on the path of a call that moved it does nothing
\* either, so two calls have the effect of one.
C17_AbsentPathNoOp ==
    [][ (call.op = "idle" /\ call'.op \in { "secure_delete", "move_to_trash" }) =>
          /\ call'.path \notin fs =>
                /\ fs' = fs /\ trash' = trash /\ login_items' = login_items
                /\ history' = history
                /\ \A i \in 1..Len(trace') : trace'[i].ev = "secure_delete"
          /\ call'.path \notin fs' =>
                \A stuck \in StuckSets :
                   LET w1 == [fs |-> fs', trash |-> trash', login_items |-> login_items',
                              procs |-> procs', history |-> history', trace |-> << >>]
                       w2 == SecureDelete(w1, call'.path, call'.force_pkgs, stuck)
                   IN /\ w2.fs = fs' /\ w2.trash = trash'
                      /\ \A i \in 1..Len(w2.trace) : w2.trace[i].ev = "secure_delete" ]_vars

\* secure_delete was called on the cache of Foo after an earlier call had
\* moved it to the trash: the call did nothing.
C17_Witness ==
    /\ call.op = "secure_delete"
    /\ call.path = HomeLibrary \o << "/", "Caches", "/" >> \o FooId
    /\ call.path \in trash
    /\ call.path \notin fs
    /\ moves = 1
    /\ trace = << Event("secure_delete", call.path, "default") >>

\* C18 as stated: remove_startup_item on a file-backed item unloads the item
\* before it passes the file to secure_delete, and the unload is issued for
\* every file-backed item that is removed.
C18_UnloadThenTrash ==
    (call.op = "remove_startup_item" /\ call.path # << >>) =>
      /\ \A i \in 1..Len(trace) :
            trace[i].ev = "secure_delete" =>
               \E j \in 1..(i - 1) :
                  trace[j] = Event("launchctl", call.path, "unload")
      /\ call.path \in trash =>
            \E j \in 1..Len(trace) : trace[j] = Event("launchctl", call.path, "unload")

\* C18: remove_startup_item on a file-backed item passes the file to
\* secure_delete first; launchctl bootout and unload are issued afterwards,
\* and only when the file is still there after secure_delete, so an item
\* whose file was moved to the trash is not unloaded.
C18_TrashThenUnloadIfLeft ==
    [][ (call.op = "idle" /\ call'.op = "remove_startup_item" /\ call'.path # << >>) =>
          LET n == Len(trace')
              unloads == { i \in 1..n : trace'[i].ev = "launchctl" }
          IN /\ n >= 1
             /\ trace'[1] = Event("secure_delete", call'.path, "default")
             /\ \A i \in 1..n : trace'[i].ev = "secure_delete" => i = 1
             /\ IF call'.path \in fs'
                THEN /\ unloads = { n - 1, n }
                     /\ n >= 3
                     /\ trace'[n - 1] = Event("launchctl", call'.path, "bootout")
                     /\ trace'[n] = Event("launchctl", call'.path, "unload")
                ELSE unloads = {}
             /\ \A i \in 1..n : trace'[i].ev = "trash" => trace'[i].path = call'.path ]_vars

\* remove_startup_item moved the launch agent of Foo to the trash and issued
\* no launchctl command.
C18_Witness ==
    /\ call.op = "remove_startup_item"
    /\ call.path = HomeLibrary \o << "/", "LaunchAgents", "/" >> \o FooId \o << ".", "plist" >>
    /\ call.path \in trash
    /\ call.path \notin fs
    /\ \E i \in 1..Len(trace) : trace[i] = Event("trash", call.path, "osascript")
    /\ \A i \in 1..Len(trace) : trace[i].ev # "launchctl"

\* C19 as stated: disable_startup_item on a file-backed item whose file
\* exists unloads the item and renames the file to the same path with the
\* suffix .disabled; nothing goes to the trash, and afterwards the original
\* path is absent and get_startup_items no longer returns the item.
C19_DisableRenames ==
    [][ ( /\ call.op = "idle"
          /\ call'.op = "disable_startup_item"
          /\ call'.path # << >>
          /\ call'.path \in fs )
        => ( /\ \E i \in 1..Len(trace') :
                   trace'[i] = Event("launchctl", call'.path, "unload -w")
             /\ trash' = trash
             /\ call'.path \notin fs'
             /\ call'.path \o << ".", "disabled" >> \in fs'
             /\ \A scriptOK \in BOOLEAN, rev \in BOOLEAN :
                   \A item \in Range(GetStartupItems(fs', login_items', scriptOK, rev)) :
                      item.path # call'.path ) ]_vars

\* C19: disable_startup_item on a file-backed item whose file exists issues
\* launchctl bootout and unload, then tries to rename the file to the same
\* path with the suffix .disabled.  It never passes the file to secure_delete
\* and nothing goes to the trash.  When the rename succeeds, the original
\* path is absent, the renamed file is there and get_startup_items no longer
\* returns the item; when the rename fails, the failure is logged, the file
\* stays where it was and get_startup_items still returns the item.
C19_DisableRenamesOrLogs ==
    [][ ( /\ call.op = "idle"
          /\ call'.op = "disable_startup_item"
          /\ call'.path # << >>
          /\ call'.path \in fs )
        => LET new_path == call'.path \o << ".", "disabled" >>
               Listed(F, L) ==
                   \A scriptOK \in BOOLEAN, rev \in BOOLEAN :
                      \E item \in Range(GetStartupItems(F, L, scriptOK, rev)) :
                         item.path = call'.path
               Unlisted(F, L) ==
                   \A scriptOK \in BOOLEAN, rev \in BOOLEAN :
                      \A item \in Range(GetStartupItems(F, L, scriptOK, rev)) :
                         item.path # call'.path
           IN /\ Len(trace') = 3
              /\ trace'[1] = Event("launchctl", call'.path, "bootout")
              /\ trace'[2] = Event("launchctl", call'.path, "unload -w")
              /\ trash' = trash
              /\ login_items' = login_items
              /\ Listed(fs, login_items)
              /\ \/ /\ trace'[3] = Event("log", call'.path, "Renamed")
                    /\ fs' = (fs \ { call'.path }) \cup { new_path }
                    /\ Unlisted(fs', login_items')
                 \/ /\ trace'[3] = Event("log", call'.path, "Failed to rename")
                    /\ fs' = fs
                    /\ Listed(fs', login_items') ]_vars

\* disable_startup_item renamed the launch agent of Foo after it had
\* unloaded it.
C19_Witness ==
    LET path == HomeLibrary \o << "/", "LaunchAgents", "/" >> \o FooId \o << ".", "plist" >>
    IN /\ call.op = "disable_startup_item"
       /\ call.path = path
       /\ path \notin fs
       /\ path \o << ".", "disabled" >> \in fs
       /\ path \notin trash
       /\ trace = << Event("launchctl", path, "bootout"),
                     Event("launchctl", path, "unload -w"),
                     Event("log", path, "Renamed") >>

\* C20: scan_orphans reports an entry of a folder it scanned exactly when
\* the name of the entry has at least three segments between dots, does not
\* begin with com.apple. and, with its extension .plist taken off, is not
\* among the installed identifiers.
C20_OrphanRule ==
    call.op = "scan_orphans" =>
      LET scanned == { d \in Range(ScanDirs) : d \in fs /\ d \notin call.unreadable }
          Clean(entry) == IF EndsWith(entry, << ".", "plist" >>)
                          THEN SubSeq(entry, 1, Len(entry) - 2) ELSE entry
          Entries(d) == { SubSeq(q, Len(d) + 2, Len(q)) :
                            q \in { r \in fs : /\ StartsWith(r, d \o Sl)
                                                /\ Len(r) > Len(d) + 1
                                                /\ \A i \in (Len(d) + 2)..Len(r) :
                                                      r[i] # "/" } }
          expected ==
            UNION { { d \o Sl \o e :
                        e \in { n \in Entries(d) :
                                  /\ Segments(n) >= 3
                                  /\ ~StartsWith(n, << "com", ".", "app", "le", "." >>)
                                  /\ Clean(n) \notin call.ids } } : d \in scanned }
      IN /\ { call.ret[i].path : i \in 1..Len(call.ret) } = expected
         /\ \A i \in 1..Len(call.ret), j \in 1..Len(call.ret) :
               call.ret[i].path = call.ret[j].path => i = j

\* scan_orphans with com.x.Evil installed: the cache com.x.Foo is reported,
\* the cache com.x.Evil and the preference file com.apple.x.plist, which
\* exist, are not.
C20_Witness ==
    /\ call.op = "scan_orphans"
    /\ call.ids = { EvilId }
    /\ call.unreadable = {}
    /\ { HomeLibrary \o << "/", "Caches", "/" >> \o FooId,
         HomeLibrary \o << "/", "Caches", "/" >> \o EvilId,
         HomeLibrary \o << "/", "Preferences", "/" >> \o AppleId \o << ".", "plist" >> }
         \subseteq fs
    /\ { call.ret[i].path : i \in 1..Len(call.ret) } =
         { HomeLibrary \o << "/", "Caches", "/" >> \o FooId,
           HomeLibrary \o << "/", "Preferences", "/" >> \o FooId \o << ".", "plist" >> }

\* C21: whichever of mdfind, pkgutil and the listings of the helper folder
\* and of the plug-in folders fail, find_leftovers returns, and its result
\* holds exactly the candidates of the sources that did not fail: a source
\* that failed adds none, and takes none of another source away.
C21_FailuresAreIsolated ==
    call.op = "find_leftovers" =>
      LET app == call.app
          env == call.env
          id == app.bundle_id
          name == app.bundle_name
          ok == [env EXCEPT !.mdOK = TRUE, !.pkgOK = TRUE, !.unreadable = {}]
          Safe(S) == { p \in S : IsSafeToDeleteCandidate(p) }
          index == IF id # << >> /\ env.mdOK THEN Safe(Range(env.md)) ELSE {}
          probes ==
            (IF id # << >> THEN Safe({ p \in Range(ManualChecks(id)) : p \in fs }) ELSE {})
            \cup (IF name # << >> /\ name # id
                  THEN Safe({ p \in Range(SmartChecks(name)) : p \in fs }) ELSE {})
          receipts == IF id # << >> /\ env.pkgOK
                      THEN Range(FindPkgReceipts(fs, ok, id)) ELSE {}
          helpers ==
            IF id # << >> /\ name # << >>
               /\ << "/", "Library", "/", "PrivilegedHelperTools" >> \notin env.unreadable
            THEN Range(FindPrivilegedHelpers(fs, ok, id, name)) ELSE {}
          plugins ==
            IF name # << >>
            THEN { p \in Range(FindPlugins(fs, ok, name)) :
                     \A d \in env.unreadable : ~Under(p, d) }
            ELSE {}
          user_data ==
            IF name # << >>
            THEN Range(FindHiddenFolders(fs, name)) \cup Range(FindUserDocuments(fs, name))
            ELSE {}
          produced == index \cup probes \cup receipts \cup helpers \cup plugins
                        \cup user_data
      IN { call.ret[i].path : i \in 1..Len(call.ret) } =
           { p \in produced : p # << >> /\ p # app.path /\ ~StartsWith(p, app.path) }

\* find_leftovers of Foo while mdfind, pkgutil and the listing of the helper
\* folder fail: the preference pane, the probes' finds and the user data of
\* Foo are returned, the helper and the receipts, which exist, are not.
C21_Witness ==
    /\ call.op = "find_leftovers"
    /\ call.app = AppFooSys
    /\ ~call.env.mdOK
    /\ ~call.env.pkgOK
    /\ call.env.unreadable = { << "/", "Library", "/", "PrivilegedHelperTools" >> }
    /\ << "/", "Library", "/", "PrivilegedHelperTools", "/" >> \o FooId \o << ".", "helper" >>
         \in fs
    /\ \E i \in 1..Len(call.ret) : call.ret[i].kind = "PLUGIN"
    /\ \E i \in 1..Len(call.ret) : call.ret[i].kind = "FILE"
    /\ \E i \in 1..Len(call.ret) : call.ret[i].kind = "USER_DATA"
    /\ \A i \in 1..Len(call.ret) : call.ret[i].kind \notin { "HELPER", "PKG_RECEIPT" }

\* C22: is_app_running, kill_app, get_startup_items and remove_startup_item
\* never raise when the external tool they start is missing, fails or times
\* out: the call returns a value.
C22_ToolFailuresAreCaught ==
    call.op \in { "is_app_running", "kill_app", "get_startup_items",
                  "remove_startup_item" }
        => ~call.raised

\* C23: _get_app_metadata never raises: when the manifest is missing,
\* unreadable or unparsable, the identifier, the bundle name and the
\* executable reference are all absent in its result, and get_installed_apps
\* still lists the application, with an absent bundle identifier.
C23_BrokenManifestStillListed ==
    call.op = "get_installed_apps" =>
        /\ ~call.raised
        /\ \A a \in Apps :
             Exists(fs, a.path) =>
               \E meta \in { GetAppMetadata(a.path, ManifestOf(call.env.manifest, a.path)) } :
                 /\ ManifestOf(call.env.manifest, a.path) # "ok" =>
                      /\ meta.id = << >>
                      /\ meta.bundle_name = << >>
                      /\ meta.executable_name = << >>
                 /\ ManifestOf(call.env.manifest, a.path) = "ok" => meta.id = a.bundle_id
                 /\ \E i \in 1..Len(call.ret) :
                      /\ call.ret[i].path = a.path
                      /\ call.ret[i].name = a.name
                      /\ call.ret[i].bundle_id = meta.id
                      /\ call.ret[i].bundle_name = meta.bundle_name

\* Foo is listed without an identifier when its manifest cannot be parsed,
\* next to Evil, whose manifest is read.
C23_Witness ==
    /\ call.op = "get_installed_apps"
    /\ ManifestOf(call.env.manifest, AppFooSys.path) = "unparsable"
    /\ ManifestOf(call.env.manifest, AppFooUser.path) = "missing"
    /\ ManifestOf(call.env.manifest, AppEvil.path) = "ok"
    /\ \E i \in 1..Len(call.ret) :
         call.ret[i].path = AppFooSys.path /\ call.ret[i].bundle_id = << >>
    /\ \E i \in 1..Len(call.ret) :
         call.ret[i].path = AppEvil.path /\ call.ret[i].bundle_id = EvilId

\* C24: find_leftovers tags as HELPER every entry of the privileged-helper
\* directory whose name contains the identifier or, whatever the case of the
\* letters, the display name; with the identifier absent and the display
\* name present, the entries that match the display name are still found.
C24_HelpersFoundByNameToo ==
    call.op = "find_leftovers" =>
        LET path == << "/", "Library", "/", "PrivilegedHelperTools" >>
            entries == ListDir(fs, path, FALSE)
        IN path \notin call.env.unreadable =>
             \A k \in 1..Len(entries) :
                (\/ /\ call.app.bundle_id # << >>
                    /\ Contains(entries[k], call.app.bundle_id)
                 \/ /\ call.app.bundle_name # << >>
                    /\ Contains(Lower(entries[k]), Lower(call.app.bundle_name)))
                  => \E i \in 1..Len(call.ret) :
                        /\ call.ret[i].path = PathJoin(path, entries[k])
                        /\ call.ret[i].kind = "HELPER"

\* C25: kill_app returns true only when the last is_app_running check it
\* made reported the process as not running, and false when that check
\* reported it running; when the check after the graceful quit already
\* reports not running, kill_app returns true and no forced termination was
\* issued.
C25_ReturnIsLastCheck ==
    call.op = "kill_app" =>
        LET checks == { i \in 1..Len(trace) : trace[i].ev = "is_app_running" }
            first == CHOOSE i \in checks : \A j \in checks : i <= j
            last == CHOOSE i \in checks : \A j \in checks : j <= i
        IN /\ checks # {}
           /\ call.ret_bool <=> trace[last].arg = "false"
           /\ trace[first].arg = "false" =>
                /\ call.ret_bool
                /\ \A i \in 1..Len(trace) : trace[i].ev # "pkill"

\* Both ends of the claim: a kill_app that was answered "running" after the
\* quit, signalled the process and was answered "running" again, so it
\* returned false.
C25_Witness ==
    /\ call.op = "kill_app"
    /\ ~call.ret_bool
    /\ \E i \in 1..Len(trace) : trace[i].ev = "pkill"
    /\ Cardinality({ i \in 1..Len(trace) :
                       trace[i].ev = "is_app_running" /\ trace[i].arg = "true" }) = 2

\* C26: check_full_disk_access returns true only if at least one protected
\* directory was listed and no listing was denied; it returns false whenever
\* a protected directory raises a permission error.
C26_TrueOnlyWhenConfirmed ==
    call.op = "check_full_disk_access" =>
        /\ call.ret_bool =>
             /\ \E i \in 1..3 : call.checks[i] = "listed"
             /\ \A i \in 1..3 : call.checks[i] # "denied"
        /\ (\E i \in 1..3 : call.checks[i] = "denied") => ~call.ret_bool

\* C27: whatever the engine does without the deletion of package receipts
\* being opted into (an uninstall batch with the receipts switch off,
\* reset_app, move_to_trash, remove_startup_item, secure_delete without
\* force), no path under /var/db/receipts or /Library/Receipts is moved to
\* trash, whatever kind discovery gave it.
C27_ReceiptsStayWithoutOptIn ==
    [][ ~(\/ call'.op = "do_delete" /\ ui.var_del_system
          \/ call'.op = "secure_delete" /\ call'.force_pkgs)
          => \A p \in trash' \ trash :
                /\ ~Under(p, << "/", "var", "/", "db", "/", "receipts" >>)
                /\ ~Under(p, << "/", "Library", "/", "Receipts" >>) ]_vars

\* C28: in every state of the switches and for every list of targets, the
\* paths the preview shows as not skipped, and the count it displays, are
\* the paths _get_active_targets returns and the worker passes to
\* secure_delete when Uninstall is clicked in that state, in the same order.
C28_PreviewIsWhatIsDeleted ==
    [][ call'.op = "do_delete" =>
          LET kept == SelectSeq(ui.preview.lines, LAMBDA line : ~line.skipped)
              shown == [k \in 1..Len(kept) |-> kept[k].path]
              calls == SelectSeq(trace', LAMBDA e : e.ev = "secure_delete")
              passed == [k \in 1..Len(calls) |-> calls[k].path]
          IN /\ shown = GetActiveTargets(ui.targets, ui.var_del_userdata,
                                         ui.var_del_system)
             /\ shown = passed
             /\ ui.preview.count = Len(passed) ]_vars

\* An uninstall of Foo with the user-data switch on and the receipts switch
\* off: the folder in Documents was passed to secure_delete, no receipt was.
C28_Witness ==
    /\ call.op = "do_delete"
    /\ \E i \in 1..Len(trace) :
         /\ trace[i].ev = "secure_delete"
         /\ trace[i].path = Home \o << "/", "Documents", "/", "Foo" >>
    /\ \A i \in 1..Len(trace) :
         trace[i].ev = "secure_delete" => ~IsReceiptPath(trace[i].path)

\* C29: for every row selected for uninstall or reset, the application
\* record acted on is the one whose install path is the path of the row,
\* also when two installed applications have the same name.
C29_RecordOfTheSelectedRow ==
    \A i \in 1..Len(trace) :
       trace[i].ev = "row" =>
          /\ i < Len(trace)
          /\ trace[i + 1].ev = "app"
          /\ trace[i + 1].path = trace[i].path

\* C30: the count reset_app returns equals the number of distinct paths for
\* which a trash-move was issued during that reset.
C30_CountIsTrashMoves ==
    call.op = "reset_app" =>
        call.count = Cardinality({ trace[i].path :
                                     i \in { j \in 1..Len(trace) : trace[j].ev = "trash" } })

====
